---------------------------- MODULE Spec2Model ----------------------------
(***************************************************************************)
(* A model of the file picker of fff.nvim (lua/fff/rust): the sorted file  *)
(* index (FileSync), the published search snapshot (FileSnapshot), the     *)
(* watcher thread with its initial scan and shutdown wait, the debouncer   *)
(* callback that handles batches of filesystem events, the manual rescan   *)
(* threads and the searches that read the snapshot.                        *)
(*                                                                         *)
(* Relative paths are the numbers 1..MaxPath, ordered as the strings they  *)
(* stand for are ordered by str::cmp.  An Option<T> is a sequence: <<>> is *)
(* None and <<x>> is Some(x).  A git2::Status is the set of its flags.     *)
(* Sequences are indexed from 1; Vec indices of the source are kept        *)
(* 0-based and element i of a Vec v is v[i + 1].                           *)
(***************************************************************************)
EXTENDS Integers, Sequences, FiniteSets, TLC

(***************************************************************************)
(* Bounds of the model.                                                    *)
(***************************************************************************)
\* Number of distinct relative paths of the workspace.
MaxPath == 2
\* Longest debounce batch (events per batch).
MaxBatch == 1
\* Mutations of the index are explored while scan_generation < MaxGen.
MaxGen == 2
\* Longest file list handed to update_files by a direct caller.
MaxInput == 3
\* Number of manual rescan threads that may run at once.
MaxRescans == 1

\* scan_generation is a u64 and wraps at 2^64.  2^64 is beyond the integers
\* of the model checker; the counter is capped by MaxGen far below either
\* value, so the wrap itself is never taken.
GenModulus == 2147483647

Paths == 1..MaxPath

None == <<>>
Some(x) == <<x>>

(***************************************************************************)
(* git.rs                                                                  *)
(***************************************************************************)
StatusFlags ==
    {"WT_NEW", "WT_MODIFIED", "WT_DELETED", "WT_RENAMED",
     "INDEX_NEW", "INDEX_MODIFIED", "INDEX_DELETED", "IGNORED"}

\* The flags of git2::Status that format_git_status does not name.
OtherStatusFlags == {"INDEX_RENAMED", "INDEX_TYPECHANGE", "WT_TYPECHANGE", "CONFLICTED"}

\* git2::Status::CURRENT is the empty flag set (its bits are 0).
CURRENT == {}

\* Status::contains: every flag of other is set in status.
status_contains(status, other) == other \subseteq status

is_modified_status(status) ==
    status \cap {"WT_MODIFIED", "INDEX_MODIFIED", "WT_NEW", "INDEX_NEW", "WT_RENAMED"} # {}

format_git_status(status) ==
    IF status = None THEN "clear"
    ELSE LET s == status[1] IN
         IF "WT_NEW" \in s THEN "untracked"
         ELSE IF "WT_MODIFIED" \in s THEN "modified"
         ELSE IF "WT_DELETED" \in s THEN "deleted"
         ELSE IF "WT_RENAMED" \in s THEN "renamed"
         ELSE IF "INDEX_NEW" \in s THEN "staged_new"
         ELSE IF "INDEX_MODIFIED" \in s THEN "staged_modified"
         ELSE IF "INDEX_DELETED" \in s THEN "staged_deleted"
         ELSE IF "IGNORED" \in s THEN "ignored"
         ELSE IF status_contains(s, CURRENT) \/ s = {} THEN "clean"
         ELSE "unknown"

(***************************************************************************)
(* The frecency tracker (frecency.rs is not part of the sources at hand).  *)
(* The index only stores what the tracker returns; the tracker is taken to *)
(* be initialised, to know no accesses, and to score a file by the symbol  *)
(* of its git status.                                                      *)
(***************************************************************************)
get_access_score(file_key) == 0

get_modification_score(status_symbol) ==
    IF status_symbol \in {"modified", "untracked", "staged_new", "staged_modified", "renamed"}
    THEN 1 ELSE 0

(***************************************************************************)
(* core.rs: FileItem and FileSync                                          *)
(***************************************************************************)
\* FileItem::new: the fields of a FileItem that the index and its readers
\* use; the frecency scores start at 0.
FileItem_new(relative_path, git_status) ==
    [relative_path |-> relative_path,
     git_status |-> git_status,
     total_frecency_score |-> 0]

\* FileItem::update_frecency_scores and the loop bodies of
\* batch_update_frecency_scores and update_git_status_for_paths.
update_frecency_scores(file) ==
    [file EXCEPT !.total_frecency_score =
        get_access_score(file.relative_path)
        + get_modification_score(format_git_status(file.git_status))]

FileSync_new == [files |-> <<>>, scan_generation |-> 0]

wrapping_add(g) == (g + 1) % GenModulus

\* The assertion of update_files: files.windows(2).all(|w| w[0] <= w[1]).
IsSortedInput(files) ==
    \A i \in 1..(Len(files) - 1) : files[i].relative_path <= files[i + 1].relative_path

batch_update_frecency_scores(sync) ==
    [sync EXCEPT !.files = [i \in 1..Len(sync.files) |-> update_frecency_scores(sync.files[i])]]

update_files(sync, files) ==
    batch_update_frecency_scores(
        [files |-> files, scan_generation |-> wrapping_add(sync.scan_generation)])

\* slice::binary_search_by over relative_path: the bisection loop of the
\* standard library, which the index runs whether or not the list is sorted.
RECURSIVE bisect(_, _, _, _)
bisect(files, path, left, right) ==
    IF left >= right THEN [found |-> FALSE, index |-> left]
    ELSE LET mid == left + ((right - left) \div 2)
             probe == files[mid + 1].relative_path
         IN IF probe < path THEN bisect(files, path, mid + 1, right)
            ELSE IF probe > path THEN bisect(files, path, left, mid)
            ELSE [found |-> TRUE, index |-> mid]

find_file_index(sync, path) == bisect(sync.files, path, 0, Len(sync.files))

contains_path(sync, path) == find_file_index(sync, path).found

\* Vec::insert(pos, x) and Vec::remove(index), 0-based.
VecInsert(v, pos, x) == SubSeq(v, 1, pos) \o <<x>> \o SubSeq(v, pos + 1, Len(v))
VecRemove(v, index) == SubSeq(v, 1, index) \o SubSeq(v, index + 2, Len(v))

\* An insertion that does not look at the result of the search.
insert_file_unchecked(sync, file) ==
    [files |-> VecInsert(sync.files, find_file_index(sync, file.relative_path).index, file),
     scan_generation |-> wrapping_add(sync.scan_generation)]

insert_file_sorted(sync, file) ==
    LET r == find_file_index(sync, file.relative_path) IN
    IF r.found THEN sync
    ELSE [files |-> VecInsert(sync.files, r.index, file),
          scan_generation |-> wrapping_add(sync.scan_generation)]

\* The bool remove_file_by_path returns: whether the search found the path.
remove_file_by_path_returns(sync, path) == find_file_index(sync, path).found

remove_file_by_path(sync, path) ==
    LET r == find_file_index(sync, path) IN
    IF r.found
    THEN [files |-> VecRemove(sync.files, r.index),
          scan_generation |-> wrapping_add(sync.scan_generation)]
    ELSE sync

\* FileSync::create_search_snapshot and the clone taken by
\* update_search_snapshot_from_sync: files and generation of one index state.
create_search_snapshot(sync) ==
    [files |-> sync.files, generation |-> sync.scan_generation]

(***************************************************************************)
(* State                                                                   *)
(***************************************************************************)
VARIABLES
    sync,             \* FilePicker.sync_data: the FileSync behind its RwLock
    sync_writer,      \* the thread holding sync_data's write lock, if any
    search_snapshot,  \* FilePicker.search_snapshot: the FileSnapshot behind its RwLock
    snap_writer,      \* the thread holding search_snapshot's write lock, if any
    is_scanning,      \* FilePicker.is_scanning (scan_signal)
    shutdown_signal,  \* FilePicker.shutdown_signal, the AtomicBool
    shutdown_flag,    \* the bool inside shutdown_condvar's Mutex
    dropped,          \* the FilePicker has been dropped
    w_pc,             \* watcher thread: position in spawn_background_watcher
    w_scan,           \* watcher thread: result of scan_filesystem
    w_clone,          \* watcher thread: (files_clone, generation) of a publication
    d_pc,             \* debouncer callback: position in handle_debounced_events
    d_batch,          \* debouncer callback: events, the batch being handled
    d_i,              \* debouncer callback: number of events of the batch already handled
    d_affected,       \* debouncer callback: affected_paths
    d_statuses,       \* debouncer callback: statuses returned by the repository
    d_clone,          \* debouncer callback: (files_clone, generation) of a publication
    r_pc,             \* rescan threads: position in trigger_rescan's closure
    r_scan,           \* rescan threads: result of scan_filesystem
    q_result,         \* the SearchResult of the latest search
    h_total,          \* history: total_files of the latest search that read a snapshot
    h_index,          \* history: every (files, scan_generation) the index has held
    h_published,      \* history: every snapshot stored in search_snapshot
    h_calls,          \* history: the calls made to the frecency tracker and to the
                      \* matcher, each with the locks its thread held
    h_stale,          \* history: (rescan thread, path) when the watcher inserted the
                      \* path while the thread held a finished scan not yet stored
    h_len0,           \* history: length of the index when the current batch arrived
    h_fresh,          \* history: paths of the batch's Create events that were regular
                      \* files, not ignored and in no entry of the index when handled
    h_rescanned,      \* history: a manual rescan replaced the index while the current
                      \* batch was being handled
    file_picker,      \* lib.rs FILE_PICKER: the installed picker's base path, if any
    f_ret,            \* what the facade itself answered last: the result of
                      \* init_file_picker, or of a call it made no picker answer
    h_spawned,        \* history: number of pickers built (each spawns one watcher)
    s_call,           \* a call of its own: the function's arguments (for a search,
                      \* the snapshot's files and the arguments)
    s_result,         \* a call of its own: what it returned, once it has returned
    h_candidates      \* history: the scored candidates of that search before truncation

indexVars == <<sync, sync_writer>>
snapVars == <<search_snapshot, snap_writer>>
lifeVars == <<shutdown_signal, shutdown_flag, dropped>>
watcherVars == <<w_pc, w_scan, w_clone>>
debouncerVars ==
    <<d_pc, d_batch, d_i, d_affected, d_statuses, d_clone, h_len0, h_fresh, h_rescanned>>
rescanVars == <<r_pc, r_scan>>
queryVars == <<q_result, h_total>>
histVars == <<h_index, h_published, h_calls, h_stale>>
facadeVars == <<file_picker, f_ret, h_spawned>>
scorerVars == <<s_call, s_result, h_candidates>>
vars == <<sync, sync_writer, search_snapshot, snap_writer, is_scanning,
          shutdown_signal, shutdown_flag, dropped, w_pc, w_scan, w_clone,
          d_pc, d_batch, d_i, d_affected, d_statuses, d_clone, r_pc, r_scan,
          q_result, h_total, h_index, h_published, h_calls, h_stale, h_len0, h_fresh, h_rescanned,
          file_picker, f_ret, h_spawned, s_call, s_result, h_candidates>>

\* Threads that take the locks.
WatcherThread == <<"watcher", 0>>
DebouncerThread == <<"debouncer", 0>>
RescanThread(r) == <<"rescan", r>>
RescanIds == 1..MaxRescans

\* What a path is on disk: no file, a tracked file equal to HEAD, a tracked
\* file with working-tree changes, or a file matched by the ignore rules.
FileStates == {"absent", "clean", "modified", "ignored"}

\* The working tree changes under the picker at any time, so whatever reads
\* it (a scan, should_add_new_file, is_path_ignored, a status query) may find
\* any tree: each read draws the tree it finds.
Trees == [Paths -> FileStates]

EventKinds == {"Create", "Modify", "Remove", "Other"}
Events == [kind : EventKinds, path : Paths]
Batches == UNION {[1..n -> Events] : n \in 1..MaxBatch}

\* SearchResult::default().
EmptyResult == [items |-> <<>>, scores |-> <<>>, total_matched |-> 0, total_files |-> 0]

\* FilePicker::new: the state of a picker as it is built, its watcher thread
\* spawned and not yet run.
FilePicker_new ==
    /\ sync = FileSync_new
    /\ sync_writer = None
    /\ search_snapshot = [files |-> <<>>, generation |-> 0]
    /\ snap_writer = None
    /\ is_scanning = FALSE
    /\ shutdown_signal = FALSE
    /\ shutdown_flag = FALSE
    /\ dropped = FALSE
    /\ w_pc = "start"
    /\ w_scan = None
    /\ w_clone = None
    /\ d_pc = "idle"
    /\ d_batch = <<>>
    /\ d_i = 0
    /\ d_affected = {}
    /\ d_statuses = None
    /\ d_clone = None
    /\ r_pc = [r \in RescanIds |-> "idle"]
    /\ r_scan = [r \in RescanIds |-> None]
    /\ q_result = EmptyResult
    /\ h_total = 0
    /\ h_index = {create_search_snapshot(FileSync_new)}
    /\ h_published = {[files |-> <<>>, generation |-> 0]}
    /\ h_calls = {}
    /\ h_stale = {}
    /\ h_len0 = 0
    /\ h_fresh = {}
    /\ h_rescanned = FALSE

\* No search of its own is under way.
NoScorerCall ==
    /\ s_call = None
    /\ s_result = None
    /\ h_candidates = None

\* What a facade call returns: Ok with a boolean, Ok with a boolean and a
\* list (of relative paths or of counts), or Err with the error.
OkWith(call, flag, data) ==
    [call |-> call, ok |-> TRUE, flag |-> flag, data |-> data, error |-> ""]
Ok(call, flag) == OkWith(call, flag, <<>>)
Err(call, error) ==
    [call |-> call, ok |-> FALSE, flag |-> FALSE, data |-> <<>>, error |-> error]

\* The workspace the picker of the other specifications was installed on.
BasePaths == {"/work", "/other"}

\* A picker is installed and has not run yet.
Init ==
    /\ FilePicker_new
    /\ file_picker = Some("/work")
    /\ f_ret = Ok("init_file_picker", TRUE)
    /\ h_spawned = 1
    /\ NoScorerCall

\* The history of the index follows every change of sync.
Record(new_sync) == h_index' = h_index \cup {create_search_snapshot(new_sync)}

\* The thread calls callee (the frecency tracker or the matcher) from site
\* while it holds the locks held; made is whether the call is made at all.
Called(made, site, callee, held) ==
    h_calls' = IF made
               THEN h_calls \cup {[site |-> site, callee |-> callee, held |-> held]}
               ELSE h_calls

\* A store that writes the files of the new snapshot and leaves the
\* generation of the old one in place.
PublishFilesOnly(snapshot) ==
    /\ search_snapshot' = [files |-> snapshot.files, generation |-> search_snapshot.generation]
    /\ h_published' = h_published \cup {search_snapshot'}

\* The assignment to *snapshot_guard, followed by the history of the snapshot.
Publish(snapshot) ==
    /\ search_snapshot' = snapshot
    /\ h_published' = h_published \cup {snapshot}

(***************************************************************************)
(* scanner.rs                                                              *)
(***************************************************************************)
\* GitStatusCache::lookup_status over read_git_status: the status list of the
\* repository names the files that differ from HEAD and no others.
lookup_status(tree, p) ==
    IF tree[p] = "modified" THEN Some({"WT_MODIFIED"}) ELSE None

\* scan_filesystem, Ok branch: one FileItem per regular file the ignore-aware
\* walker yields, with the git overlay applied.  The parallel walker pushes
\* the items in no fixed order, so the result is kept as a set and the
\* order is fixed where the Vec is used.
scan_filesystem(tree) ==
    {FileItem_new(p, lookup_status(tree, p)) : p \in {x \in Paths : tree[x] \in {"clean", "modified"}}}

\* Every Vec holding exactly the items of a set.
Orderings(S) ==
    {f \in [1..Cardinality(S) -> S] : \A i, j \in 1..Cardinality(S) : i # j => f[i] # f[j]}

\* FileSync::prepare_files_for_update: sort_by relative_path.
prepare_files_for_update(S) ==
    CHOOSE f \in Orderings(S) : IsSortedInput(f)

\* should_add_new_file for a path found in state fstate: not a git internal
\* (no path of the model is), a regular file, and not ignored by the
\* repository.
should_add_new_file(fstate) ==
    /\ fstate # "absent"
    /\ fstate # "ignored"

\* The ignore test with its sense reversed.
is_path_ignored_negated(fstate) == fstate # "ignored"

\* repo.is_path_ignored(path).unwrap_or(false) for a path found in state fstate.
is_path_ignored(fstate) == fstate = "ignored"

(***************************************************************************)
(* watcher.rs: spawn_background_watcher, the watcher thread                *)
(***************************************************************************)
\* scan_signal.store(true)
WatcherStart ==
    /\ w_pc = "start"
    /\ is_scanning' = TRUE
    /\ w_pc' = "scan"
    /\ UNCHANGED <<indexVars, snapVars, lifeVars, scorerVars, facadeVars, w_scan, w_clone,
                   debouncerVars, rescanVars, queryVars, histVars>>

\* scan_filesystem returns Ok((files, git_cache)).
InitialScanOk ==
    /\ w_pc = "scan"
    /\ \E tree \in Trees : w_scan' = Some(scan_filesystem(tree))
    /\ w_pc' = "update"
    /\ UNCHANGED <<indexVars, snapVars, is_scanning, lifeVars, scorerVars, facadeVars, w_clone,
                   debouncerVars, rescanVars, queryVars, histVars>>

\* scan_filesystem returns Err (the git status thread panicked): only the
\* error is logged.
InitialScanErr ==
    /\ w_pc = "scan"
    /\ w_pc' = "scan_failed"
    /\ UNCHANGED <<indexVars, snapVars, is_scanning, lifeVars, scorerVars, facadeVars, w_scan, w_clone,
                   debouncerVars, rescanVars, queryVars, histVars>>

\* prepare_files_for_update, then update_files under sync_data.write().
InitialUpdate ==
    /\ w_pc = "update"
    /\ sync_writer = None
    /\ sync.scan_generation < MaxGen
    /\ sync' = update_files(sync, prepare_files_for_update(w_scan[1]))
    /\ Record(sync')
    /\ w_scan' = None
    /\ w_pc' = "pub_read"
    /\ UNCHANGED <<sync_writer, snapVars, is_scanning, lifeVars, scorerVars, facadeVars, w_clone,
                   debouncerVars, rescanVars, queryVars, h_published>>
    /\ Called(sync'.files # <<>>, "update_files", "frecency", {"sync_data"})
    /\ UNCHANGED h_stale

\* update_search_snapshot_from_sync, first block: clone under sync_data.read().
WatcherPubRead ==
    /\ w_pc = "pub_read"
    /\ sync_writer = None
    /\ w_clone' = Some(create_search_snapshot(sync))
    /\ w_pc' = "pub_lock"
    /\ UNCHANGED <<indexVars, snapVars, is_scanning, lifeVars, scorerVars, facadeVars, w_scan,
                   debouncerVars, rescanVars, queryVars, histVars>>

\* update_search_snapshot_from_sync: search_snapshot.write() is granted.
WatcherPubLock ==
    /\ w_pc = "pub_lock"
    /\ snap_writer = None
    /\ snap_writer' = Some(WatcherThread)
    /\ w_pc' = "pub_store"
    /\ UNCHANGED <<indexVars, search_snapshot, is_scanning, lifeVars, scorerVars, facadeVars, w_scan, w_clone,
                   debouncerVars, rescanVars, queryVars, histVars>>

\* update_search_snapshot_from_sync: the assignment, and the guard dropped.
WatcherPubStore ==
    /\ w_pc = "pub_store"
    /\ snap_writer = Some(WatcherThread)
    /\ Publish(w_clone[1])
    /\ snap_writer' = None
    /\ w_clone' = None
    /\ w_pc' = "scan_end"
    /\ UNCHANGED <<indexVars, is_scanning, lifeVars, scorerVars, facadeVars, w_scan,
                   debouncerVars, rescanVars, queryVars, h_index, h_calls, h_stale>>

\* A watcher thread that returns from the Err branch of the match.
WatcherScanEndOnSuccess ==
    /\ w_pc \in {"scan_end", "scan_failed"}
    /\ is_scanning' = IF w_pc = "scan_failed" THEN is_scanning ELSE FALSE
    /\ w_pc' = IF w_pc = "scan_failed" THEN "exited" ELSE "debouncer"
    /\ UNCHANGED <<indexVars, snapVars, lifeVars, scorerVars, facadeVars, w_scan, w_clone,
                   debouncerVars, rescanVars, queryVars, histVars>>

\* scan_signal.store(false), after either branch of the match.
WatcherScanEnd ==
    /\ w_pc \in {"scan_end", "scan_failed"}
    /\ is_scanning' = FALSE
    /\ w_pc' = "debouncer"
    /\ UNCHANGED <<indexVars, snapVars, lifeVars, scorerVars, facadeVars, w_scan, w_clone,
                   debouncerVars, rescanVars, queryVars, histVars>>

\* new_debouncer and debouncer.watch succeed; the thread locks the shutdown
\* mutex and, the flag being false, waits on the condition variable.
WatcherWatch ==
    /\ w_pc = "debouncer"
    /\ w_pc' = IF shutdown_flag THEN "exited" ELSE "waiting"
    /\ UNCHANGED <<indexVars, snapVars, is_scanning, lifeVars, scorerVars, facadeVars, w_scan, w_clone,
                   debouncerVars, rescanVars, queryVars, histVars>>

\* new_debouncer or debouncer.watch fails: the thread returns.
WatcherWatchErr ==
    /\ w_pc = "debouncer"
    /\ w_pc' = "exited"
    /\ UNCHANGED <<indexVars, snapVars, is_scanning, lifeVars, scorerVars, facadeVars, w_scan, w_clone,
                   debouncerVars, rescanVars, queryVars, histVars>>

\* condvar.wait returns with the mutex held; the loop ends when the flag
\* under the mutex is true (a wakeup that finds it false waits again).
WatcherWake ==
    /\ w_pc = "waiting"
    /\ shutdown_flag
    /\ w_pc' = "exited"
    /\ UNCHANGED <<indexVars, snapVars, is_scanning, lifeVars, scorerVars, facadeVars, w_scan, w_clone,
                   debouncerVars, rescanVars, queryVars, histVars>>

\* The thread up to its wait, and the whole thread.
WatcherRun ==
    \/ WatcherStart \/ InitialScanOk \/ InitialScanErr \/ InitialUpdate
    \/ WatcherPubRead \/ WatcherPubLock \/ WatcherPubStore \/ WatcherScanEnd
    \/ WatcherWatch \/ WatcherWatchErr

WatcherStep == WatcherRun \/ WatcherWake

(***************************************************************************)
(* watcher.rs: handle_debounced_events, run by the debouncer's thread for  *)
(* one batch at a time while the watcher thread keeps the debouncer alive. *)
(* Every event of the model names one path under base_path.                *)
(***************************************************************************)
CurrentEvent == d_batch[d_i + 1]

\* A filter that lets any event through when its path passes
\* should_add_new_file, whatever the kind of the event.
IsRelevant_any_kind(s, fstate, event) ==
    \/ contains_path(s, event.path)
    \/ should_add_new_file(fstate)

\* The filter_map closure of handle_debounced_events for the event's path.
IsRelevant(s, fstate, event) ==
    \/ contains_path(s, event.path)
    \/ /\ event.kind = "Create"
       /\ should_add_new_file(fstate)

\* A handler that refreshes the git statuses as soon as affected_paths holds
\* a path, inside the loop over the events.
AfterEvent_refresh_in_loop(i, aff) ==
    IF aff # {} THEN "git"
    ELSE IF i < Len(d_batch) THEN "filter"
    ELSE "done"

\* Where the callback goes once d_i events are handled and affected_paths is
\* aff: the next event, the git refresh, or the end of the handler.
AfterEvent(i, aff) ==
    IF i < Len(d_batch) THEN "filter"
    ELSE IF aff # {} THEN "git"
    ELSE "done"

\* The debouncer calls the handler with a batch of events.
DeliverFrom(batches) ==
    /\ d_pc = "idle"
    /\ w_pc = "waiting"
    /\ \E batch \in batches : d_batch' = batch
    /\ d_i' = 0
    /\ d_affected' = {}
    /\ d_statuses' = None
    /\ h_len0' = Len(sync.files)
    /\ h_fresh' = {}
    /\ h_rescanned' = FALSE
    /\ d_pc' = "filter"
    /\ UNCHANGED <<indexVars, snapVars, is_scanning, lifeVars, scorerVars, facadeVars, watcherVars,
                   d_clone, rescanVars, queryVars, histVars>>

DeliverBatch == DeliverFrom(Batches)

\* relevant_paths is empty: continue with the next event.
FilterSkip ==
    /\ d_pc = "filter"
    /\ sync_writer = None
    /\ \E fstate \in FileStates : ~IsRelevant(sync, fstate, CurrentEvent)
    /\ d_i' = d_i + 1
    /\ d_pc' = AfterEvent(d_i + 1, d_affected)
    /\ UNCHANGED <<indexVars, snapVars, is_scanning, lifeVars, scorerVars, facadeVars, watcherVars,
                   d_batch, d_affected, d_statuses, d_clone, h_len0, h_rescanned, h_fresh, rescanVars, queryVars, histVars>>

\* EventKind::Create with a relevant path: handle_create_events is called.
FilterCreate ==
    /\ d_pc = "filter"
    /\ sync_writer = None
    /\ \E fstate \in FileStates : IsRelevant(sync, fstate, CurrentEvent)
    /\ CurrentEvent.kind = "Create"
    /\ h_fresh' = IF \E i \in 1..Len(sync.files) :
                           sync.files[i].relative_path = CurrentEvent.path
                  THEN h_fresh
                  ELSE h_fresh \cup {CurrentEvent.path}
    /\ d_pc' = "create"
    /\ UNCHANGED <<indexVars, snapVars, is_scanning, lifeVars, scorerVars, facadeVars, watcherVars,
                   d_batch, d_i, d_affected, d_statuses, d_clone, h_len0, h_rescanned, rescanVars, queryVars, histVars>>

\* EventKind::Modify with a relevant path: affected_paths.extend.
FilterModify ==
    /\ d_pc = "filter"
    /\ sync_writer = None
    /\ \E fstate \in FileStates : IsRelevant(sync, fstate, CurrentEvent)
    /\ CurrentEvent.kind = "Modify"
    /\ d_affected' = d_affected \cup {CurrentEvent.path}
    /\ d_i' = d_i + 1
    /\ d_pc' = AfterEvent(d_i + 1, d_affected')
    /\ UNCHANGED <<indexVars, snapVars, is_scanning, lifeVars, scorerVars, facadeVars, watcherVars,
                   d_batch, d_statuses, d_clone, h_len0, h_rescanned, h_fresh, rescanVars, queryVars, histVars>>

\* EventKind::Remove with a relevant path: remove_paths_from_index is called.
FilterRemove ==
    /\ d_pc = "filter"
    /\ sync_writer = None
    /\ \E fstate \in FileStates : IsRelevant(sync, fstate, CurrentEvent)
    /\ CurrentEvent.kind = "Remove"
    /\ d_pc' = "remove"
    /\ UNCHANGED <<indexVars, snapVars, is_scanning, lifeVars, scorerVars, facadeVars, watcherVars,
                   d_batch, d_i, d_affected, d_statuses, d_clone, h_len0, h_rescanned, h_fresh, rescanVars, queryVars, histVars>>

\* Any other event kind with a relevant path: affected_paths.extend.
FilterOther ==
    /\ d_pc = "filter"
    /\ sync_writer = None
    /\ \E fstate \in FileStates : IsRelevant(sync, fstate, CurrentEvent)
    /\ CurrentEvent.kind = "Other"
    /\ d_affected' = d_affected \cup {CurrentEvent.path}
    /\ d_i' = d_i + 1
    /\ d_pc' = AfterEvent(d_i + 1, d_affected')
    /\ UNCHANGED <<indexVars, snapVars, is_scanning, lifeVars, scorerVars, facadeVars, watcherVars,
                   d_batch, d_statuses, d_clone, h_len0, h_rescanned, h_fresh, rescanVars, queryVars, histVars>>

\* The body of handle_create_events under sync_data.write(): an ignored path
\* is skipped, any other is inserted with FileItem::new(path, base_path, None).
create_in_index(s, fstate, p) ==
    IF is_path_ignored(fstate) THEN s
    ELSE insert_file_sorted(s, FileItem_new(p, None))

HandleCreate ==
    /\ d_pc = "create"
    /\ sync_writer = None
    /\ sync.scan_generation < MaxGen
    /\ \E fstate \in FileStates :
        /\ sync' = create_in_index(sync, fstate, CurrentEvent.path)
        /\ h_fresh' = IF fstate \in {"clean", "modified"}
                      THEN h_fresh
                      ELSE h_fresh \ {CurrentEvent.path}
    /\ Record(sync')
    /\ d_pc' = "pub_read"
    /\ UNCHANGED <<sync_writer, snapVars, is_scanning, lifeVars, scorerVars, facadeVars, watcherVars,
                   d_batch, d_i, d_affected, d_statuses, d_clone, h_len0, h_rescanned, rescanVars, queryVars,
                   h_published, h_calls>>
    /\ h_stale' = IF sync' # sync
                  THEN h_stale \cup {<<r, CurrentEvent.path>> :
                                      r \in {x \in RescanIds : r_pc[x] = "update"}}
                  ELSE h_stale

\* The body of remove_paths_from_index under sync_data.write().
HandleRemove ==
    /\ d_pc = "remove"
    /\ sync_writer = None
    /\ sync.scan_generation < MaxGen
    /\ sync' = remove_file_by_path(sync, CurrentEvent.path)
    /\ Record(sync')
    /\ d_pc' = "pub_read"
    /\ UNCHANGED <<sync_writer, snapVars, is_scanning, lifeVars, scorerVars, facadeVars, watcherVars,
                   d_batch, d_i, d_affected, d_statuses, d_clone, h_len0, h_rescanned, h_fresh, rescanVars, queryVars,
                   h_published, h_calls>>
    /\ h_stale' = {x \in h_stale : x[2] # CurrentEvent.path}

\* update_search_snapshot_from_sync, first block: clone under sync_data.read().
DebouncerPubRead ==
    /\ d_pc = "pub_read"
    /\ sync_writer = None
    /\ d_clone' = Some(create_search_snapshot(sync))
    /\ d_pc' = "pub_lock"
    /\ UNCHANGED <<indexVars, snapVars, is_scanning, lifeVars, scorerVars, facadeVars, watcherVars,
                   d_batch, d_i, d_affected, d_statuses, h_len0, h_rescanned, h_fresh, rescanVars, queryVars, histVars>>

\* update_search_snapshot_from_sync: search_snapshot.write() is granted.
DebouncerPubLock ==
    /\ d_pc = "pub_lock"
    /\ snap_writer = None
    /\ snap_writer' = Some(DebouncerThread)
    /\ d_pc' = "pub_store"
    /\ UNCHANGED <<indexVars, search_snapshot, is_scanning, lifeVars, scorerVars, facadeVars, watcherVars,
                   d_batch, d_i, d_affected, d_statuses, d_clone, h_len0, h_rescanned, h_fresh, rescanVars, queryVars,
                   histVars>>

\* A publication that takes sync_data.read() for its clone while it holds the
\* guard of search_snapshot.write().
DebouncerPubStore_reads_index ==
    /\ d_pc = "pub_store"
    /\ snap_writer = Some(DebouncerThread)
    /\ sync_writer = None
    /\ Publish(d_clone[1])
    /\ snap_writer' = None
    /\ d_clone' = None
    /\ IF d_i < Len(d_batch)
       THEN /\ d_affected' = IF CurrentEvent.kind = "Create"
                             THEN d_affected \cup {CurrentEvent.path}
                             ELSE d_affected
            /\ d_i' = d_i + 1
            /\ d_pc' = AfterEvent(d_i + 1, d_affected')
       ELSE /\ d_pc' = "done"
            /\ UNCHANGED <<d_affected, d_i>>
    /\ UNCHANGED <<indexVars, is_scanning, lifeVars, scorerVars, facadeVars, watcherVars,
                   d_batch, d_statuses, h_len0, h_rescanned, h_fresh, rescanVars, queryVars, h_index, h_calls, h_stale>>

\* update_search_snapshot_from_sync: the assignment, and the guard dropped.
\* Back in handle_debounced_events: after handle_create_events the paths are
\* added to affected_paths; after the git refresh the handler is finished.
DebouncerPubStore ==
    /\ d_pc = "pub_store"
    /\ snap_writer = Some(DebouncerThread)
    /\ Publish(d_clone[1])
    /\ snap_writer' = None
    /\ d_clone' = None
    /\ IF d_i < Len(d_batch)
       THEN /\ d_affected' = IF CurrentEvent.kind = "Create"
                             THEN d_affected \cup {CurrentEvent.path}
                             ELSE d_affected
            /\ d_i' = d_i + 1
            /\ d_pc' = AfterEvent(d_i + 1, d_affected')
       ELSE /\ d_pc' = "done"
            /\ UNCHANGED <<d_affected, d_i>>
    /\ UNCHANGED <<indexVars, is_scanning, lifeVars, scorerVars, facadeVars, watcherVars,
                   d_batch, d_statuses, h_len0, h_rescanned, h_fresh, rescanVars, queryVars, h_index, h_calls, h_stale>>

\* repo.statuses with include_untracked and the pathspecs of affected_paths:
\* one entry per affected path that differs from HEAD (an unmodified file
\* has no entry).  The status entries are kept as a function of their paths.
repo_statuses(tree, affected) ==
    [p \in {x \in affected : tree[x] = "modified"} |-> {"WT_MODIFIED"}]

\* First pass of update_git_status_for_paths for one status entry.
apply_status(s, p, status) ==
    LET r == find_file_index(s, p) IN
    IF r.found
    THEN [s EXCEPT !.files[r.index + 1].git_status = Some(status)]
    ELSE s

\* Second pass for one status entry: the frecency scores of the updated index.
refresh_frecency(s, p) ==
    LET r == find_file_index(s, p) IN
    IF r.found
    THEN [s EXCEPT !.files[r.index + 1] = update_frecency_scores(s.files[r.index + 1])]
    ELSE s

RECURSIVE apply_statuses(_, _, _)
apply_statuses(s, statuses, todo) ==
    IF todo = {} THEN s
    ELSE LET p == CHOOSE x \in todo : \A y \in todo : x <= y
         IN apply_statuses(refresh_frecency(apply_status(s, p, statuses[p]), p),
                           statuses, todo \ {p})

\* The body of update_git_status_for_paths under sync_data.write().
update_git_status(s, statuses) == apply_statuses(s, statuses, DOMAIN statuses)

\* update_git_status_for_paths: the repository opens and answers, the
\* statuses are written into the index.
GitRefresh ==
    /\ d_pc = "git"
    /\ sync_writer = None
    /\ \E tree \in Trees : d_statuses' = Some(repo_statuses(tree, d_affected))
    /\ sync' = update_git_status(sync, d_statuses'[1])
    /\ Record(sync')
    /\ d_pc' = "pub_read"
    /\ UNCHANGED <<sync_writer, snapVars, is_scanning, lifeVars, scorerVars, facadeVars, watcherVars,
                   d_batch, d_i, d_affected, d_clone, h_len0, h_rescanned, h_fresh, rescanVars, queryVars, h_published>>
    /\ Called(\E p \in DOMAIN d_statuses'[1] : find_file_index(sync, p).found,
              "update_git_status_for_paths", "frecency", {"sync_data"})
    /\ UNCHANGED h_stale

\* update_git_status_for_paths: Repository::open or repo.statuses fails and
\* the function returns before it touches the index or the snapshot.
GitRefreshErr ==
    /\ d_pc = "git"
    /\ d_pc' = "done"
    /\ UNCHANGED <<indexVars, snapVars, is_scanning, lifeVars, scorerVars, facadeVars, watcherVars,
                   d_batch, d_i, d_affected, d_statuses, d_clone, h_len0, h_rescanned, h_fresh, rescanVars, queryVars,
                   histVars>>

\* handle_debounced_events returns.
BatchReturn ==
    /\ d_pc = "done"
    /\ d_pc' = "idle"
    /\ d_batch' = <<>>
    /\ d_i' = 0
    /\ d_affected' = {}
    /\ d_statuses' = None
    /\ h_len0' = 0
    /\ h_fresh' = {}
    /\ h_rescanned' = FALSE
    /\ UNCHANGED <<indexVars, snapVars, is_scanning, lifeVars, scorerVars, facadeVars, watcherVars,
                   d_clone, rescanVars, queryVars, histVars>>

\* update_search_snapshot_from_sync as the handler calls it.
DebouncerPublish == DebouncerPubRead \/ DebouncerPubLock \/ DebouncerPubStore

DebouncerStep ==
    \/ DeliverBatch \/ FilterSkip \/ FilterCreate \/ FilterModify \/ FilterRemove
    \/ FilterOther \/ HandleCreate \/ HandleRemove \/ DebouncerPublish
    \/ GitRefresh \/ GitRefreshErr \/ BatchReturn

(***************************************************************************)
(* file_picker_main.rs: trigger_rescan and the thread it spawns            *)
(***************************************************************************)
\* trigger_rescan on the caller's thread: scan_signal.store(true), spawn.
TriggerRescan(r) ==
    /\ ~dropped
    /\ r_pc[r] = "idle"
    /\ sync.scan_generation < MaxGen
    /\ is_scanning' = TRUE
    /\ r_pc' = [r_pc EXCEPT ![r] = "scan"]
    /\ UNCHANGED <<indexVars, snapVars, lifeVars, scorerVars, facadeVars, watcherVars, debouncerVars,
                   r_scan, queryVars, histVars>>

\* scan_filesystem returns Ok((files, git_cache)).
RescanScanOk(r) ==
    /\ r_pc[r] = "scan"
    /\ \E tree \in Trees : r_scan' = [r_scan EXCEPT ![r] = Some(scan_filesystem(tree))]
    /\ r_pc' = [r_pc EXCEPT ![r] = "update"]
    /\ UNCHANGED <<indexVars, snapVars, is_scanning, lifeVars, scorerVars, facadeVars, watcherVars,
                   debouncerVars, queryVars, histVars>>

\* scan_filesystem returns Err: "Filesystem scan failed" is logged.
RescanScanErr(r) ==
    /\ r_pc[r] = "scan"
    /\ r_pc' = [r_pc EXCEPT ![r] = "failed"]
    /\ UNCHANGED <<indexVars, snapVars, is_scanning, lifeVars, scorerVars, facadeVars, watcherVars,
                   debouncerVars, r_scan, queryVars, histVars>>

\* The Vec that trigger_rescan hands to update_files: the scan result as the
\* walker left it.
rescan_input(S) == Orderings(S)

\* sync_data.write() is granted and update_files runs; the guard is kept.
RescanUpdate(r) ==
    /\ r_pc[r] = "update"
    /\ sync_writer = None
    /\ sync.scan_generation < MaxGen
    /\ \E files \in rescan_input(r_scan[r][1]) : sync' = update_files(sync, files)
    /\ Record(sync')
    /\ sync_writer' = Some(RescanThread(r))
    /\ r_scan' = [r_scan EXCEPT ![r] = None]
    /\ r_pc' = [r_pc EXCEPT ![r] = "snap_lock"]
    /\ h_rescanned' = (d_pc # "idle")
    /\ UNCHANGED <<snapVars, is_scanning, lifeVars, scorerVars, facadeVars, watcherVars,
                   d_pc, d_batch, d_i, d_affected, d_statuses, d_clone, h_len0, h_fresh,
                   queryVars, h_published>>
    /\ Called(sync'.files # <<>>, "update_files", "frecency", {"sync_data"})
    /\ h_stale' = {x \in h_stale : x[1] # r}

\* data.create_search_snapshot(), then search_snapshot.write() is granted
\* while the guard of sync_data is still held.
RescanSnapLock(r) ==
    /\ r_pc[r] = "snap_lock"
    /\ snap_writer = None
    /\ snap_writer' = Some(RescanThread(r))
    /\ r_pc' = [r_pc EXCEPT ![r] = "store"]
    /\ UNCHANGED <<indexVars, search_snapshot, is_scanning, lifeVars, scorerVars, facadeVars, watcherVars,
                   debouncerVars, r_scan, queryVars, histVars>>

\* *snapshot_guard = *new_snapshot; both guards are dropped.
RescanStore(r) ==
    /\ r_pc[r] = "store"
    /\ snap_writer = Some(RescanThread(r))
    /\ sync_writer = Some(RescanThread(r))
    /\ Publish(create_search_snapshot(sync))
    /\ snap_writer' = None
    /\ sync_writer' = None
    /\ r_pc' = [r_pc EXCEPT ![r] = "end"]
    /\ UNCHANGED <<sync, is_scanning, lifeVars, scorerVars, facadeVars, watcherVars, debouncerVars,
                   r_scan, queryVars, h_index, h_calls, h_stale>>

\* scan_signal.store(false), after either branch; the thread ends.
RescanEnd(r) ==
    /\ r_pc[r] \in {"end", "failed"}
    /\ is_scanning' = FALSE
    /\ r_pc' = [r_pc EXCEPT ![r] = "idle"]
    /\ UNCHANGED <<indexVars, snapVars, lifeVars, scorerVars, facadeVars, watcherVars, debouncerVars,
                   r_scan, queryVars, histVars>>

RescanStep ==
    \E r \in RescanIds :
        \/ TriggerRescan(r) \/ RescanScanOk(r) \/ RescanScanErr(r)
        \/ RescanUpdate(r) \/ RescanSnapLock(r) \/ RescanStore(r) \/ RescanEnd(r)

(***************************************************************************)
(* core.rs: fuzzy_search_with_snapshot, as far as the snapshot goes: what  *)
(* a search of all files (a short query, max_results above the file count) *)
(* reports of the snapshot it read.                                        *)
(***************************************************************************)
search_result(snapshot) ==
    [items |-> [i \in 1..Len(snapshot.files) |-> snapshot.files[i].relative_path],
     scores |-> [i \in 1..Len(snapshot.files) |-> "frecency"],
     total_matched |-> Len(snapshot.files),
     total_files |-> Len(snapshot.files)]

\* A query that gives up on the lock and answers from the snapshot all the
\* same.
SearchTimeoutReadsAnyway ==
    /\ ~dropped
    /\ snap_writer # None
    /\ q_result' = search_result(search_snapshot)
    /\ UNCHANGED h_total
    /\ UNCHANGED <<indexVars, snapVars, is_scanning, lifeVars, scorerVars, facadeVars, watcherVars,
                   debouncerVars, rescanVars, histVars>>

\* try_read_snapshot_with_timeout: try_read succeeds when no writer holds
\* the lock.
SearchRead ==
    /\ ~dropped
    /\ snap_writer = None
    /\ q_result' = search_result(search_snapshot)
    /\ h_total' = q_result'.total_files
    /\ UNCHANGED <<indexVars, snapVars, is_scanning, lifeVars, scorerVars, facadeVars, watcherVars,
                   debouncerVars, rescanVars, histVars>>

\* try_read_snapshot_with_timeout: every try_read of the retry window found
\* the lock write-held; SearchResult::default() is returned.
SearchTimeout ==
    /\ ~dropped
    /\ snap_writer # None
    /\ q_result' = EmptyResult
    /\ UNCHANGED h_total
    /\ UNCHANGED <<indexVars, snapVars, is_scanning, lifeVars, scorerVars, facadeVars, watcherVars,
                   debouncerVars, rescanVars, histVars>>

SearchStep == SearchRead \/ SearchTimeout

(***************************************************************************)
(* file_picker_main.rs: stop_background_monitor and Drop                   *)
(***************************************************************************)
StopBackgroundMonitor ==
    /\ ~dropped
    /\ shutdown_signal' = TRUE
    /\ UNCHANGED <<indexVars, snapVars, is_scanning, shutdown_flag, dropped,
                   facadeVars, scorerVars, watcherVars, debouncerVars, rescanVars, queryVars, histVars>>

\* A Drop that stores the atomic and leaves the flag under the mutex alone.
DropPicker_atomic_only ==
    /\ ~dropped
    /\ shutdown_signal' = TRUE
    /\ dropped' = TRUE
    /\ UNCHANGED <<indexVars, snapVars, is_scanning, shutdown_flag, facadeVars, scorerVars,
                   watcherVars, debouncerVars, rescanVars, queryVars, histVars>>

\* Drop: the atomic is set, the flag is set under the mutex, notify_all.
DropPicker ==
    /\ ~dropped
    /\ shutdown_signal' = TRUE
    /\ shutdown_flag' = TRUE
    /\ dropped' = TRUE
    /\ UNCHANGED <<indexVars, snapVars, is_scanning, facadeVars, scorerVars,
                   watcherVars, debouncerVars, rescanVars, queryVars, histVars>>

LifeStep == StopBackgroundMonitor \/ DropPicker

(***************************************************************************)
(* The picker: every thread and the environment.                           *)
(***************************************************************************)
\* The picker while it is alive: the watcher thread up to its wait, the
\* debouncer callback, manual rescans and searches.
Next ==
    \/ WatcherRun
    \/ DebouncerStep
    \/ RescanStep
    \/ SearchStep

Spec == Init /\ [][Next]_vars

\* The watcher thread and the debouncer callback alone: no manual rescan.
WatchNext ==
    \/ WatcherRun
    \/ DebouncerStep

WatchSpec == Init /\ [][WatchNext]_vars

\* The picker when every batch holds Create events only, with searches.
CreateBatches == {b \in Batches : \A i \in 1..Len(b) : b[i].kind = "Create"}

DeliverCreateBatch == DeliverFrom(CreateBatches)

CreateNext ==
    \/ WatcherRun
    \/ DeliverCreateBatch \/ FilterSkip \/ FilterCreate \/ HandleCreate
    \/ DebouncerPublish \/ GitRefresh \/ GitRefreshErr \/ BatchReturn
    \/ SearchStep

CreateSpec == Init /\ [][CreateNext]_vars

\* The life of the picker: the watcher thread, searches, and the calls that
\* end it.  The operating system keeps scheduling the watcher thread.
LifeNext ==
    \/ WatcherStep
    \/ SearchStep
    \/ LifeStep

LifeSpec == Init /\ [][LifeNext]_vars /\ WF_vars(WatcherStep)

(***************************************************************************)
(* core.rs: a FileSync used directly through update_files (with any input  *)
(* its assertion accepts), insert_file_sorted and remove_file_by_path.     *)
(***************************************************************************)
InputItems ==
    {FileItem_new(p, st) : p \in Paths, st \in {None, Some({"WT_MODIFIED"})}}

SortedInputs ==
    {f \in UNION {[1..n -> InputItems] : n \in 0..MaxInput} : IsSortedInput(f)}

CallUpdateFiles ==
    /\ sync.scan_generation < MaxGen
    /\ \E files \in SortedInputs : sync' = update_files(sync, files)
    /\ Record(sync')
    /\ UNCHANGED <<sync_writer, snapVars, is_scanning, lifeVars, scorerVars, facadeVars, watcherVars,
                   debouncerVars, rescanVars, queryVars, h_published>>
    /\ Called(sync'.files # <<>>, "update_files", "frecency", {})
    /\ UNCHANGED h_stale

CallInsertFileSorted ==
    /\ sync.scan_generation < MaxGen
    /\ \E file \in InputItems : sync' = insert_file_sorted(sync, file)
    /\ Record(sync')
    /\ UNCHANGED <<sync_writer, snapVars, is_scanning, lifeVars, scorerVars, facadeVars, watcherVars,
                   debouncerVars, rescanVars, queryVars, h_published, h_calls, h_stale>>

CallRemoveFileByPath ==
    /\ sync.scan_generation < MaxGen
    /\ \E path \in Paths : sync' = remove_file_by_path(sync, path)
    /\ Record(sync')
    /\ UNCHANGED <<sync_writer, snapVars, is_scanning, lifeVars, scorerVars, facadeVars, watcherVars,
                   debouncerVars, rescanVars, queryVars, h_published, h_calls, h_stale>>

IndexNext == CallUpdateFiles \/ CallInsertFileSorted \/ CallRemoveFileByPath

IndexSpec == Init /\ [][IndexNext]_vars

(***************************************************************************)
(* lib.rs: the facade over the process-wide FILE_PICKER.  Each call takes  *)
(* the lock of FILE_PICKER for its whole body, so a call is one step.      *)
(***************************************************************************)
\* The calls that need a picker.
FacadeCalls ==
    {"scan_files", "get_cached_files", "fuzzy_search_files", "get_scan_progress",
     "is_scanning", "refresh_git_status", "stop_background_monitor",
     "wait_for_initial_scan"}

NotInitialized == "InvalidPath: File picker not initialized"

\* No call has been made and no picker is installed.  The picker's own
\* variables hold the state FilePicker::new gives them and stay there until
\* a picker is installed: no thread exists that could change them.
FacadeInit ==
    /\ FilePicker_new
    /\ file_picker = None
    /\ f_ret = Ok("none", TRUE)
    /\ h_spawned = 0
    /\ NoScorerCall

\* init_file_picker that builds a picker whether or not one is installed.
init_file_picker_unguarded(base_path, exists) ==
    /\ IF ~exists
       THEN /\ f_ret' = Err("init_file_picker", "InvalidPath")
            /\ UNCHANGED <<file_picker, h_spawned>>
       ELSE /\ file_picker' = Some(base_path)
            /\ h_spawned' = h_spawned + 1
            /\ f_ret' = Ok("init_file_picker", TRUE)
    /\ UNCHANGED <<indexVars, snapVars, is_scanning, lifeVars, scorerVars, watcherVars,
                   debouncerVars, rescanVars, queryVars, histVars>>

\* init_file_picker(base_path); exists is what path.exists() finds.
init_file_picker(base_path, exists) ==
    /\ IF file_picker # None
       THEN /\ f_ret' = Ok("init_file_picker", FALSE)
            /\ UNCHANGED <<file_picker, h_spawned>>
       ELSE IF ~exists
       THEN /\ f_ret' = Err("init_file_picker", "InvalidPath")
            /\ UNCHANGED <<file_picker, h_spawned>>
       ELSE /\ file_picker' = Some(base_path)
            /\ h_spawned' = h_spawned + 1
            /\ f_ret' = Ok("init_file_picker", TRUE)
    /\ UNCHANGED <<indexVars, snapVars, is_scanning, lifeVars, scorerVars, watcherVars,
                   debouncerVars, rescanVars, queryVars, histVars>>

CallInitFilePicker ==
    \E base_path \in BasePaths, exists \in BOOLEAN : init_file_picker(base_path, exists)

\* A call that finds no picker and goes on as if it had found an empty one.
uninitialized_call_defaults(call) ==
    /\ file_picker = None
    /\ f_ret' = OkWith(call, FALSE, <<>>)
    /\ UNCHANGED <<file_picker, h_spawned>>
    /\ UNCHANGED <<indexVars, snapVars, is_scanning, lifeVars, scorerVars, watcherVars,
                   debouncerVars, rescanVars, queryVars, histVars>>

\* The ok_or_else of every call of FacadeCalls when FILE_PICKER holds None.
uninitialized_call(call) ==
    /\ file_picker = None
    /\ f_ret' = Err(call, NotInitialized)
    /\ UNCHANGED <<file_picker, h_spawned>>
    /\ UNCHANGED <<indexVars, snapVars, is_scanning, lifeVars, scorerVars, watcherVars,
                   debouncerVars, rescanVars, queryVars, histVars>>

CallUninitialized == \E call \in FacadeCalls : uninitialized_call(call)

\* The calls a picker answers without changing anything: get_cached_files
\* and refresh_git_status (the files of the index), get_scan_progress,
\* is_scanning, wait_for_initial_scan (whether the scan ended in time).
picker_answer(call) ==
    CASE call \in {"get_cached_files", "refresh_git_status"} ->
            OkWith(call, TRUE, [i \in 1..Len(sync.files) |-> sync.files[i].relative_path])
      [] call = "get_scan_progress" ->
            OkWith(call, is_scanning, <<Len(sync.files), Len(sync.files)>>)
      [] call = "is_scanning" -> Ok(call, is_scanning)
      [] call = "wait_for_initial_scan" -> Ok(call, ~is_scanning)

CallPickerRead ==
    /\ file_picker # None
    /\ sync_writer = None
    /\ \E call \in {"get_cached_files", "refresh_git_status", "get_scan_progress",
                    "is_scanning", "wait_for_initial_scan"} :
          f_ret' = picker_answer(call)
    /\ UNCHANGED <<file_picker, h_spawned>>
    /\ UNCHANGED <<indexVars, snapVars, is_scanning, lifeVars, scorerVars, watcherVars,
                   debouncerVars, rescanVars, queryVars, histVars>>

\* fuzzy_search_files and stop_background_monitor on an installed picker
\* are the picker's fuzzy_search and stop_background_monitor; its watcher
\* thread runs once it is installed.  (scan_files on an installed picker is
\* trigger_rescan, which Spec has.)
CallFuzzySearchFiles == file_picker # None /\ SearchStep
CallStopBackgroundMonitor == file_picker # None /\ StopBackgroundMonitor
InstalledWatcher == file_picker # None /\ WatcherRun

FacadeNext ==
    \/ CallInitFilePicker
    \/ CallUninitialized
    \/ CallPickerRead
    \/ CallFuzzySearchFiles
    \/ CallStopBackgroundMonitor
    \/ InstalledWatcher

FacadeSpec == FacadeInit /\ [][FacadeNext]_vars

(***************************************************************************)
(* Strings.  A string is the sequence of its characters; a non-ASCII       *)
(* character is written by its code point.  A path string is the sequence  *)
(* of the components its '/' separate.                                     *)
(***************************************************************************)
UpperE == "U+00C9"   \* LATIN CAPITAL LETTER E WITH ACUTE, two bytes in UTF-8
LowerE == "U+00E9"   \* LATIN SMALL LETTER E WITH ACUTE, two bytes in UTF-8

\* char::len_utf8.
len_utf8(c) == IF c \in {UpperE, LowerE} THEN 2 ELSE 1

\* str::len: the length in bytes.
RECURSIVE str_len(_)
str_len(s) == IF s = <<>> THEN 0 ELSE len_utf8(Head(s)) + str_len(Tail(s))

\* u8::to_ascii_lowercase on each byte: ASCII letters only.
to_ascii_lowercase(c) ==
    CASE c = "L" -> "l" [] c = "I" -> "i" [] c = "B" -> "b"
      [] c = "R" -> "r" [] c = "S" -> "s" [] OTHER -> c

\* char::to_lowercase: every letter that has a lower case.
char_to_lowercase(c) == IF c = UpperE THEN LowerE ELSE to_ascii_lowercase(c)

\* str::to_lowercase.
to_lowercase(s) == [i \in 1..Len(s) |-> char_to_lowercase(s[i])]

\* str::eq_ignore_ascii_case.
eq_ignore_ascii_case(a, b) ==
    /\ Len(a) = Len(b)
    /\ \A i \in 1..Len(a) : to_ascii_lowercase(a[i]) = to_ascii_lowercase(b[i])

\* str::contains(&str).
contains(haystack, needle) ==
    \E k \in 0..(Len(haystack) - Len(needle)) :
        SubSeq(haystack, k + 1, k + Len(needle)) = needle

(***************************************************************************)
(* path_utils.rs                                                           *)
(***************************************************************************)
MAX_PENALTY_LEVEL_MULTIPLIER == 10

\* The components a path is compared and walked by.
RootDir == <<"/">>
CurDir == <<".">>
ParentDir == <<".", ".">>

\* Path::components of a path string, given as the pieces its '/' separate
\* (the empty string has none, a leading '/' leaves an empty first piece):
\* the root if the string starts with '/', then every non-empty piece, a
\* '.' being kept only where it leads a relative path.
components(path) ==
    LET has_root == Len(path) >= 2 /\ path[1] = <<>>
        kept == {i \in 1..Len(path) :
                    /\ path[i] # <<>>
                    /\ (path[i] = CurDir => i = 1)}
        rest == SelectSeq([i \in 1..Len(path) |-> IF i \in kept THEN path[i] ELSE <<>>],
                          LAMBDA c : c # <<>>)
    IN IF has_root THEN <<RootDir>> \o rest ELSE rest

\* Path::parent, as the components of the parent: None for the empty path
\* and for the root.
Path_parent(path) ==
    LET comps == components(path) IN
    IF comps = <<>> \/ comps[Len(comps)] = RootDir THEN None
    ELSE Some(SubSeq(comps, 1, Len(comps) - 1))

\* components().filter(|c| matches!(c, Component::Normal(_))).
normal_components(comps) ==
    SelectSeq(comps, LAMBDA c : c \notin {RootDir, CurDir, ParentDir})

\* zip(..).take_while(|(a, b)| a == b).count().
RECURSIVE common_prefix_len(_, _)
common_prefix_len(a, b) ==
    IF a = <<>> \/ b = <<>> \/ Head(a) # Head(b) THEN 0
    ELSE 1 + common_prefix_len(Tail(a), Tail(b))

Min(a, b) == IF a < b THEN a ELSE b
Max(a, b) == IF a > b THEN a ELSE b

I32_MAX == 2147483647
I32_MIN == -I32_MAX - 1

\* The + of i32 in a release build: the sum modulo 2^32.
add_i32(a, b) ==
    IF a > 0 /\ b > I32_MAX - a THEN (a - I32_MAX - 1) + (b - I32_MAX - 1)
    ELSE IF a < 0 /\ b < I32_MIN - a THEN (a + I32_MAX + 1) + (b + I32_MAX + 1)
    ELSE a + b

\* The * of i32 in a release build, for a count n >= 0: the product modulo
\* 2^32.
RECURSIVE mul_i32(_, _)
mul_i32(a, n) == IF n = 0 THEN 0 ELSE add_i32(mul_i32(a, n - 1), a)

\* A distance that counts the candidate's side only.
calculate_directory_distance_penalty_one_sided(current_file, candidate_path, penalty_per_level) ==
    IF current_file = None THEN 0
    ELSE LET current_dir == Path_parent(current_file[1])
             candidate_dir == Path_parent(candidate_path) IN
    IF current_dir = None \/ candidate_dir = None THEN 0
    ELSE IF current_dir = candidate_dir THEN 0
    ELSE LET current_components == normal_components(current_dir[1])
             candidate_components == normal_components(candidate_dir[1])
             common_len == common_prefix_len(current_components, candidate_components)
             total_distance == Len(candidate_components) - common_len
             penalty == mul_i32(penalty_per_level, total_distance)
         IN IF total_distance = 0 THEN 0
            ELSE IF penalty_per_level < 0
                 THEN Max(penalty, mul_i32(penalty_per_level, MAX_PENALTY_LEVEL_MULTIPLIER))
                 ELSE Min(penalty, mul_i32(penalty_per_level, MAX_PENALTY_LEVEL_MULTIPLIER))

calculate_directory_distance_penalty(current_file, candidate_path, penalty_per_level) ==
    IF current_file = None THEN 0
    ELSE LET current_dir == Path_parent(current_file[1])
             candidate_dir == Path_parent(candidate_path) IN
    IF current_dir = None \/ candidate_dir = None THEN 0
    ELSE IF current_dir = candidate_dir THEN 0
    ELSE LET current_components == normal_components(current_dir[1])
             candidate_components == normal_components(candidate_dir[1])
             common_len == common_prefix_len(current_components, candidate_components)
             total_distance == (Len(current_components) - common_len)
                               + (Len(candidate_components) - common_len)
             penalty == mul_i32(penalty_per_level, total_distance)
         IN IF total_distance = 0 THEN 0
            ELSE IF penalty_per_level < 0
                 THEN Max(penalty, mul_i32(penalty_per_level, MAX_PENALTY_LEVEL_MULTIPLIER))
                 ELSE Min(penalty, mul_i32(penalty_per_level, MAX_PENALTY_LEVEL_MULTIPLIER))

\* The penalty per directory level the scorer is configured with.
DirectoryDistancePenalty == -2

\* calculate_distance_penalty(current_file, candidate_path), the two-argument
\* form score.rs calls: the distance penalty at the configured level penalty.
calculate_distance_penalty(current_file, candidate_path) ==
    calculate_directory_distance_penalty(current_file, candidate_path,
                                         DirectoryDistancePenalty)

(***************************************************************************)
(* score.rs                                                                *)
(***************************************************************************)
\* i32::saturating_add and i32::saturating_mul.
saturating_add(a, b) ==
    IF b >= 0
    THEN IF a > I32_MAX - b THEN I32_MAX ELSE a + b
    ELSE IF a < I32_MIN - b THEN I32_MIN ELSE a + b

Abs(a) == IF a < 0 THEN -a ELSE a

saturating_mul(a, b) ==
    IF a = 0 \/ b = 0 THEN 0
    ELSE IF a = I32_MIN \/ b = I32_MIN \/ Abs(a) > I32_MAX \div Abs(b)
    THEN IF (a < 0) = (b < 0) THEN I32_MAX ELSE I32_MIN
    ELSE a * b

\* The division of i32: the quotient is rounded towards zero.
div_i32(a, b) ==
    IF (a < 0) = (b < 0) THEN Abs(a) \div Abs(b) ELSE -(Abs(a) \div Abs(b))

EXACT_FILENAME_BONUS_DIVISOR == 5
EXACT_FILENAME_BONUS_MULTIPLIER == 2
FUZZY_FILENAME_BONUS_DIVISOR == 5
SPECIAL_ENTRY_BONUS_PERCENT == 18

is_special_entry_point_file(filename) ==
    filename \in
      {<<"m","o","d",".","r","s">>, <<"l","i","b",".","r","s">>,
       <<"m","a","i","n",".","r","s">>, <<"i","n","d","e","x",".","j","s">>,
       <<"i","n","d","e","x",".","j","s","x">>, <<"i","n","d","e","x",".","t","s">>,
       <<"i","n","d","e","x",".","t","s","x">>, <<"i","n","d","e","x",".","m","j","s">>,
       <<"i","n","d","e","x",".","c","j","s">>, <<"i","n","d","e","x",".","v","u","e">>,
       <<"_","_","i","n","i","t","_","_",".","p","y">>,
       <<"_","_","m","a","i","n","_","_",".","p","y">>,
       <<"m","a","i","n",".","g","o">>, <<"m","a","i","n",".","c">>,
       <<"i","n","d","e","x",".","p","h","p">>, <<"m","a","i","n",".","r","b">>,
       <<"i","n","d","e","x",".","r","b">>}

\* calculate_filename_bonus with the first two rows in the other order.
calculate_filename_bonus_contains_first(query, filename, base_score) ==
    IF contains(to_lowercase(filename), to_lowercase(query))
    THEN [bonus |-> div_i32(base_score, FUZZY_FILENAME_BONUS_DIVISOR),
          match_type |-> "fuzzy_filename", special |-> FALSE]
    ELSE IF eq_ignore_ascii_case(filename, query)
    THEN [bonus |-> div_i32(base_score, EXACT_FILENAME_BONUS_DIVISOR)
                      * EXACT_FILENAME_BONUS_MULTIPLIER,
          match_type |-> "exact_filename", special |-> FALSE]
    ELSE IF is_special_entry_point_file(filename)
    THEN [bonus |-> div_i32(base_score * SPECIAL_ENTRY_BONUS_PERCENT, 100),
          match_type |-> "fuzzy_path", special |-> TRUE]
    ELSE [bonus |-> 0, match_type |-> "fuzzy_path", special |-> FALSE]

\* The tuple (filename_bonus, match_type, has_special_bonus).
calculate_filename_bonus(query, filename, base_score) ==
    IF eq_ignore_ascii_case(filename, query)
    THEN [bonus |-> div_i32(base_score, EXACT_FILENAME_BONUS_DIVISOR)
                      * EXACT_FILENAME_BONUS_MULTIPLIER,
          match_type |-> "exact_filename", special |-> FALSE]
    ELSE IF contains(to_lowercase(filename), to_lowercase(query))
    THEN [bonus |-> div_i32(base_score, FUZZY_FILENAME_BONUS_DIVISOR),
          match_type |-> "fuzzy_filename", special |-> FALSE]
    ELSE IF is_special_entry_point_file(filename)
    THEN [bonus |-> div_i32(base_score * SPECIAL_ENTRY_BONUS_PERCENT, 100),
          match_type |-> "fuzzy_path", special |-> TRUE]
    ELSE [bonus |-> 0, match_type |-> "fuzzy_path", special |-> FALSE]

\* calculate_file_bonus that takes the demotion off every file.
calculate_file_bonus_every_file(file, context) ==
    IF context.current_file # None
    THEN IF file.git_status # None /\ is_modified_status(file.git_status[1])
         THEN -150 ELSE -300
    ELSE 0

calculate_file_bonus(file, context) ==
    IF context.current_file # None /\ file.relative_path = context.current_file[1]
    THEN IF file.git_status # None /\ is_modified_status(file.git_status[1])
         THEN -150 ELSE -300
    ELSE 0

\* The Score of one file on the short-query path.
frecency_score(file, context) ==
    LET total_frecency_score ==
            file.access_frecency_score
            + saturating_mul(file.modification_frecency_score, 4)
        distance_penalty ==
            calculate_distance_penalty(context.current_file, file.relative_path)
    IN [total |-> saturating_add(saturating_add(total_frecency_score, distance_penalty),
                                 calculate_file_bonus(file, context)),
        base_score |-> 0,
        filename_bonus |-> 0,
        special_filename_bonus |-> 0,
        frecency_boost |-> total_frecency_score,
        distance_penalty |-> distance_penalty,
        match_type |-> "frecency"]

\* One (idx, score) per file, in the order of files.
score_all_by_frecency(files, context) ==
    [i \in 1..Len(files) |-> [idx |-> i - 1, score |-> frecency_score(files[i], context)]]

\* The Score of one file the matcher returned with base_score.
match_score(file, base_score, context) ==
    LET frecency_boost ==
            div_i32(saturating_mul(base_score, file.total_frecency_score), 100)
        distance_penalty ==
            calculate_distance_penalty(context.current_file, file.relative_path)
        fb == calculate_filename_bonus(context.query, file.file_name, base_score)
    IN [total |-> saturating_add(saturating_add(saturating_add(base_score, frecency_boost),
                                                distance_penalty),
                                 fb.bonus),
        base_score |-> base_score,
        filename_bonus |-> fb.bonus,
        special_filename_bonus |-> IF fb.special THEN fb.bonus ELSE 0,
        frecency_boost |-> frecency_boost,
        distance_penalty |-> distance_penalty,
        match_type |-> fb.match_type]

\* What neo_frizbee::match_list_parallel may score a matched haystack with.
MatchScores == {50, 104}

\* neo_frizbee::match_list_parallel(query, haystack, options, max_threads):
\* the external matcher returns some of the haystack's indices, each with a
\* score; which ones and with what score is the matcher's business.
match_list_parallel(query, haystack, max_typos) ==
    UNION {[S -> MatchScores] : S \in SUBSET (0..(Len(haystack) - 1))}

\* par_sort_unstable_by over a set of distinct entries, the comparison given
\* as the set ahead of pairs <<a, b>> with a before b: every arrangement in
\* which no entry stands before one that the comparison puts ahead of it.
sort_unstable_by(entries, ahead) ==
    {o \in Orderings(entries) :
        \A i, j \in 1..Len(o) : i < j => <<o[j], o[i]>> \notin ahead}

\* |a, b| b.1.total.cmp(&a.1.total): a stands ahead of b.
by_total(a, b) == a.score.total > b.score.total

\* A scorer that sends only the empty query down the short-query path.
match_and_score_files_empty_query_only(files, context) ==
    IF str_len(context.query) < 1 THEN {score_all_by_frecency(files, context)}
    ELSE IF files = <<>> THEN {<<>>}
    ELSE UNION
      {LET results == {[idx |-> i, score |-> match_score(files[i + 1], m[i], context)] :
                          i \in DOMAIN m}
       IN sort_unstable_by(results,
                           {p \in results \X results : by_total(p[1], p[2])}) :
         m \in match_list_parallel(context.query,
                                   [i \in 1..Len(files) |-> files[i].relative_path],
                                   context.max_typos)}

\* The possible results of match_and_score_files: sequences of (idx, score).
match_and_score_files(files, context) ==
    IF str_len(context.query) < 2 THEN {score_all_by_frecency(files, context)}
    ELSE IF files = <<>> THEN {<<>>}
    ELSE UNION
      {LET results == {[idx |-> i, score |-> match_score(files[i + 1], m[i], context)] :
                          i \in DOMAIN m}
       IN sort_unstable_by(results,
                           {p \in results \X results : by_total(p[1], p[2])}) :
         m \in match_list_parallel(context.query,
                                   [i \in 1..Len(files) |-> files[i].relative_path],
                                   context.max_typos)}

(***************************************************************************)
(* core.rs: fuzzy_search_with_snapshot on a snapshot it could read.        *)
(***************************************************************************)
\* (query.len() as u16 / 4).clamp(2, 6) for a query of query_len bytes: the
\* cast keeps the low 16 bits of the length.
max_typos(query_len) == Max(2, Min(6, (query_len % 65536) \div 4))

max_typos_for(query) == max_typos(str_len(query))

ScoringContext(query, current_file) ==
    [query |-> query, max_typos |-> max_typos_for(query), current_file |-> current_file]

Range(seq) == {seq[i] : i \in 1..Len(seq)}

\* The comparison of the final sort: total descending, then modified
\* descending.
by_total_then_modified(files, a, b) ==
    \/ a.score.total > b.score.total
    \/ /\ a.score.total = b.score.total
       /\ files[a.idx + 1].modified > files[b.idx + 1].modified

\* Vec::truncate.
truncate(v, len) == SubSeq(v, 1, Min(len, Len(v)))

\* The SearchResult built from the sorted and truncated candidates.
SearchResult(files, scored_results, total_matched) ==
    [items |-> [i \in 1..Len(scored_results) |-> files[scored_results[i].idx + 1]],
     scores |-> [i \in 1..Len(scored_results) |-> scored_results[i].score],
     total_matched |-> total_matched,
     total_files |-> Len(files)]

\* A search that counts the candidates after it has truncated them.
search_counting_after_truncate(files, max_results, scored_indices) ==
    {SearchResult(files, truncate(sorted, max_results),
                  Len(truncate(sorted, max_results))) :
       sorted \in sort_unstable_by(
                     Range(scored_indices),
                     {p \in Range(scored_indices) \X Range(scored_indices) :
                        by_total_then_modified(files, p[1], p[2])})}

\* The possible results of the search once match_and_score_files has
\* returned scored_indices.
search_of_scored(files, max_results, scored_indices) ==
    {SearchResult(files, truncate(sorted, max_results), Len(scored_indices)) :
       sorted \in sort_unstable_by(
                     Range(scored_indices),
                     {p \in Range(scored_indices) \X Range(scored_indices) :
                        by_total_then_modified(files, p[1], p[2])})}

(***************************************************************************)
(* One search on a snapshot: the files and arguments are drawn, then       *)
(* fuzzy_search_with_snapshot runs on them.                                *)
(***************************************************************************)
MaxFiles == 2

\* The relative paths main.rs, src/lib.rs, src/library.rs and a file whose
\* name is the one letter E-acute, in ascending order (of their bytes).
ScorePaths ==
    <<<< <<"m","a","i","n",".","r","s">> >>,
      << <<"s","r","c">>, <<"l","i","b",".","r","s">> >>,
      << <<"s","r","c">>, <<"l","i","b","r","a","r","y",".","r","s">> >>,
      << <<UpperE>> >> >>

\* "", "l", E-acute in lower case, "lib", "lib.rs", "LIB.RS".
ScoreQueries ==
    {<<>>, <<"l">>, <<LowerE>>, <<"l","i","b">>, <<"l","i","b",".","r","s">>,
     <<"L","I","B",".","R","S">>}

\* FileItem::new followed by update_frecency_scores, with the scores the
\* frecency tracker gave.
FileItem_scored(relative_path, modified, access, modification, git_status) ==
    [relative_path |-> relative_path,
     file_name |-> relative_path[Len(relative_path)],
     modified |-> modified,
     access_frecency_score |-> access,
     modification_frecency_score |-> modification,
     total_frecency_score |-> access + modification,
     git_status |-> git_status]

\* What a file of the snapshot may carry besides its path.
ScoreAttrs ==
    [modified : {1, 2}, access : {0, 400},
     git_status : {None, Some({"WT_MODIFIED"}), Some({"WT_DELETED"})}]

\* The list of the elements of a set of numbers, ascending.
RECURSIVE Ascending(_)
Ascending(S) ==
    IF S = {} THEN <<>>
    ELSE LET m == CHOOSE x \in S : \A y \in S : x <= y
         IN <<m>> \o Ascending(S \ {m})

\* Snapshots of at most MaxFiles files, ascending by relative path.
ScoreSnapshots ==
    UNION {{[i \in 1..Len(Ascending(S)) |->
               LET k == Ascending(S)[i] IN
               FileItem_scored(ScorePaths[k], attrs[k].modified, attrs[k].access,
                               IF attrs[k].git_status = Some({"WT_MODIFIED"}) THEN 2 ELSE 0,
                               attrs[k].git_status)] :
             attrs \in [S -> ScoreAttrs]} :
           S \in {T \in SUBSET (1..Len(ScorePaths)) : Cardinality(T) <= MaxFiles}}

ScoreCalls ==
    [files : ScoreSnapshots,
     query : ScoreQueries,
     max_results : 0..MaxFiles,
     current_file : {None, Some(ScorePaths[1]), Some(ScorePaths[2])}]

ScoreInit ==
    /\ FilePicker_new
    /\ file_picker = Some("/work")
    /\ f_ret = Ok("init_file_picker", TRUE)
    /\ h_spawned = 1
    /\ s_call \in {Some(c) : c \in ScoreCalls}
    /\ s_result = None
    /\ h_candidates = None

\* fuzzy_search_with_snapshot(snapshot, query, max_results, max_threads,
\* current_file) from the read of the snapshot on.
CallFuzzySearch ==
    /\ s_call # None
    /\ s_result = None
    /\ LET c == s_call[1] IN
       \E scored_indices \in
             match_and_score_files(c.files, ScoringContext(c.query, c.current_file)) :
          /\ h_candidates' = Some(scored_indices)
          /\ \E r \in search_of_scored(c.files, c.max_results, scored_indices) :
                s_result' = Some(r)
    /\ Called(str_len(s_call[1].query) >= 2 /\ s_call[1].files # <<>>,
              "fuzzy_search", "matcher", {})
    /\ UNCHANGED s_call
    /\ UNCHANGED <<indexVars, snapVars, is_scanning, lifeVars, facadeVars, watcherVars,
                   debouncerVars, rescanVars, queryVars, h_index, h_published>>
    /\ UNCHANGED h_stale

ScoreNext == CallFuzzySearch

ScoreSpec == ScoreInit /\ [][ScoreNext]_vars


(***************************************************************************)
(* The functions without state, each called once on arguments drawn from   *)
(* bounded sets: the max_typos of a search, the directory distance         *)
(* penalty, and the symbol of a git status.                                *)
(***************************************************************************)
MaxTypoLen == 30
MaxDepth == 11

\* Query lengths in bytes: the short ones, and the same ones past 2^16.
QueryLens == (0..MaxTypoLen) \cup {65535} \cup {65536 + n : n \in 0..MaxTypoLen}

\* Path strings: "", "/", "f", "./f", "a/f", "a/./f", "a/../f", "/a/f",
\* "a/b/f" and a file MaxDepth directories deep.
DistancePaths ==
    LET f == <<"f">>
        a == <<"a">>
        b == <<"b">>
    IN {<<>>, <<<<>>, <<>>>>, <<f>>, <<CurDir, f>>, <<a, f>>, <<a, CurDir, f>>,
        <<a, ParentDir, f>>, <<<<>>, a, f>>, <<a, b, f>>,
        [i \in 1..(MaxDepth + 1) |-> IF i = MaxDepth + 1 THEN f ELSE <<"d">>]}

\* Penalties per level: the configured one, its opposite sign, none, and
\* two whose tenfold does not fit in 32 bits.
PenaltyLevels == {DirectoryDistancePenalty, 0, 3, 300000000, -300000000}

AllStatuses == {None} \cup {Some(S) : S \in SUBSET (StatusFlags \cup OtherStatusFlags)}

PureCall(fn, query_len, status, current_file, candidate_path, penalty_per_level) ==
    [fn |-> fn, query_len |-> query_len, status |-> status,
     current_file |-> current_file, candidate_path |-> candidate_path,
     penalty_per_level |-> penalty_per_level]

PureCalls ==
    {PureCall("max_typos", n, None, None, <<>>, 0) : n \in QueryLens}
    \cup {PureCall("format_git_status", 0, st, None, <<>>, 0) : st \in AllStatuses}
    \cup {PureCall("calculate_directory_distance_penalty", 0, None, cur, cand, p) :
            cur \in {None} \cup {Some(x) : x \in DistancePaths},
            cand \in DistancePaths, p \in PenaltyLevels}

\* What a call returned: a number or a string.
PureResult(n, s) == [n |-> n, s |-> s]

PureInit ==
    /\ FilePicker_new
    /\ file_picker = Some("/work")
    /\ f_ret = Ok("init_file_picker", TRUE)
    /\ h_spawned = 1
    /\ s_call \in {Some(c) : c \in PureCalls}
    /\ s_result = None
    /\ h_candidates = None

PureReturn(result) ==
    /\ s_result = None
    /\ s_result' = Some(result)
    /\ UNCHANGED <<s_call, h_candidates>>
    /\ UNCHANGED <<indexVars, snapVars, is_scanning, lifeVars, facadeVars, watcherVars,
                   debouncerVars, rescanVars, queryVars, histVars>>

\* fuzzy_search_with_snapshot computes max_typos from the query's length.
CallMaxTypos ==
    /\ s_call[1].fn = "max_typos"
    /\ PureReturn(PureResult(max_typos(s_call[1].query_len), ""))

CallDirectoryDistancePenalty ==
    /\ s_call[1].fn = "calculate_directory_distance_penalty"
    /\ PureReturn(PureResult(
           calculate_directory_distance_penalty(s_call[1].current_file,
                                                s_call[1].candidate_path,
                                                s_call[1].penalty_per_level), ""))

CallFormatGitStatus ==
    /\ s_call[1].fn = "format_git_status"
    /\ PureReturn(PureResult(0, format_git_status(s_call[1].status)))

PureNext == CallMaxTypos \/ CallDirectoryDistancePenalty \/ CallFormatGitStatus

PureSpec == PureInit /\ [][PureNext]_vars


\* The picker when a batch may hold several events: the watcher thread, the
\* debouncer callback and manual rescans, without searches.  The schedules
\* are those in which a manual rescan runs between two batches: a batch is
\* delivered when no rescan is under way, and a rescan thread runs while the
\* callback is idle.
MaxLongBatch == 2
LongBatches == UNION {[1..n -> Events] : n \in 1..MaxLongBatch}

DeliverLongBatch ==
    /\ \A r \in RescanIds : r_pc[r] = "idle"
    /\ DeliverFrom(LongBatches)

RescanBetweenBatches == d_pc = "idle" /\ RescanStep

BatchNext ==
    \/ WatcherRun
    \/ DeliverLongBatch \/ FilterSkip \/ FilterCreate \/ FilterModify \/ FilterRemove
    \/ FilterOther \/ HandleCreate \/ HandleRemove \/ DebouncerPublish
    \/ GitRefresh \/ GitRefreshErr \/ BatchReturn
    \/ RescanBetweenBatches

BatchSpec == Init /\ [][BatchNext]_vars


(***************************************************************************)
(* The operations of the picker on sync_data and search_snapshot when a    *)
(* writer has panicked with the guard of a lock: std::sync::RwLock then    *)
(* answers Err(PoisonError) to read(), write() and try_read().  Each       *)
(* operation is a call of its own on a pair of locks.                      *)
(***************************************************************************)
RwLock(value, poisoned) == [value |-> value, poisoned |-> poisoned]

\* RwLock::read, RwLock::write and RwLock::try_read without contention:
\* whether the LockResult is Ok.
lock_is_ok(lock) == ~lock.poisoned

\* FilePicker::get_cached_files.
get_cached_files(sync_lock) ==
    IF lock_is_ok(sync_lock) THEN sync_lock.value.files ELSE <<>>

\* update_search_snapshot_from_sync: the Result it returns and the snapshot
\* it leaves behind.
update_search_snapshot_from_sync(sync_lock, snap_lock) ==
    IF ~lock_is_ok(sync_lock)
    THEN [ok |-> FALSE, snapshot |-> snap_lock.value]
    ELSE IF ~lock_is_ok(snap_lock)
    THEN [ok |-> FALSE, snapshot |-> snap_lock.value]
    ELSE [ok |-> TRUE, snapshot |-> create_search_snapshot(sync_lock.value)]

\* try_read_snapshot_with_timeout: every try_read that answers Err, for
\* whatever reason, is retried until the timeout.
try_read_snapshot_with_timeout(snap_lock) ==
    IF lock_is_ok(snap_lock)
    THEN [ok |-> TRUE, snapshot |-> snap_lock.value]
    ELSE [ok |-> FALSE, snapshot |-> [files |-> <<>>, generation |-> 0]]

\* fuzzy_search_with_snapshot as far as the snapshot goes.
search_of_lock(snap_lock) ==
    LET r == try_read_snapshot_with_timeout(snap_lock) IN
    IF r.ok THEN search_result(r.snapshot) ELSE EmptyResult

\* The filter_map closure of handle_debounced_events, sync_data.read()
\* included.
is_relevant_path(sync_lock, fstate, event) ==
    IF lock_is_ok(sync_lock) THEN IsRelevant(sync_lock.value, fstate, event) ELSE FALSE

\* handle_create_events and remove_paths_from_index: the index after the
\* block under sync_data.write().
handle_create_events(sync_lock, fstate, path) ==
    IF lock_is_ok(sync_lock) THEN create_in_index(sync_lock.value, fstate, path)
    ELSE sync_lock.value

remove_paths_from_index(sync_lock, path) ==
    IF lock_is_ok(sync_lock) THEN remove_file_by_path(sync_lock.value, path)
    ELSE sync_lock.value

\* The indexes an initial scan leaves, and the snapshots published of them.
ScannedIndexes ==
    {update_files(FileSync_new, prepare_files_for_update(scan_filesystem(tree))) :
        tree \in Trees}

SyncLocks == {RwLock(s, p) : s \in ScannedIndexes, p \in BOOLEAN}

SnapLocks ==
    {RwLock(create_search_snapshot(s), p) : s \in ScannedIndexes \cup {FileSync_new},
                                            p \in BOOLEAN}

LockOperations ==
    {"get_cached_files", "update_search_snapshot_from_sync", "fuzzy_search",
     "filter", "handle_create_events", "remove_paths_from_index"}

LockCalls(fns) ==
    [fn : fns, sync_lock : SyncLocks, snap_lock : SnapLocks,
     event : Events, fstate : {"clean", "ignored"}]

\* What an operation answered and left behind: the files it returned, the
\* flag it returned, and the values inside the two locks afterwards.
LockResult(files, flag, new_sync, snapshot) ==
    [files |-> files, flag |-> flag, sync |-> new_sync, snapshot |-> snapshot]

\* The operation of a call, applied to the two locks given.
lock_operation(call, sync_lock, snap_lock) ==
    LET published(new_sync) ==
            update_search_snapshot_from_sync(RwLock(new_sync, sync_lock.poisoned),
                                             snap_lock)
    IN CASE call.fn = "get_cached_files" ->
              LockResult(get_cached_files(sync_lock), TRUE, sync_lock.value, snap_lock.value)
         [] call.fn = "update_search_snapshot_from_sync" ->
              LockResult(<<>>, published(sync_lock.value).ok, sync_lock.value,
                         published(sync_lock.value).snapshot)
         [] call.fn = "fuzzy_search" ->
              LockResult(search_of_lock(snap_lock).items, TRUE, sync_lock.value,
                         snap_lock.value)
         [] call.fn = "filter" ->
              LockResult(<<>>, is_relevant_path(sync_lock, call.fstate, call.event),
                         sync_lock.value, snap_lock.value)
         [] call.fn = "handle_create_events" ->
              LET s == handle_create_events(sync_lock, call.fstate, call.event.path)
              IN LockResult(<<>>, published(s).ok, s, published(s).snapshot)
         [] call.fn = "remove_paths_from_index" ->
              LET s == remove_paths_from_index(sync_lock, call.event.path)
              IN LockResult(<<>>, published(s).ok, s, published(s).snapshot)

PoisonInit ==
    /\ FilePicker_new
    /\ file_picker = Some("/work")
    /\ f_ret = Ok("init_file_picker", TRUE)
    /\ h_spawned = 1
    /\ s_call \in {Some(c) : c \in
            LockCalls({"get_cached_files", "update_search_snapshot_from_sync",
                       "fuzzy_search"})
            \cup {c \in LockCalls({"filter"}) : c.event.path = 1}
            \cup {c \in LockCalls({"handle_create_events"}) : c.event.kind = "Create"}
            \cup {c \in LockCalls({"remove_paths_from_index"}) : c.event.kind = "Remove"}}
    /\ s_result = None
    /\ h_candidates = None

CallLockOperation(fn) ==
    /\ s_call[1].fn = fn
    /\ PureReturn(lock_operation(s_call[1], s_call[1].sync_lock, s_call[1].snap_lock))

CallGetCachedFiles == CallLockOperation("get_cached_files")
CallPublish == CallLockOperation("update_search_snapshot_from_sync")
CallSearch == CallLockOperation("fuzzy_search")
CallFilter == CallLockOperation("filter")
CallHandleCreateEvents == CallLockOperation("handle_create_events")
CallRemovePathsFromIndex == CallLockOperation("remove_paths_from_index")

PoisonNext ==
    \/ CallGetCachedFiles \/ CallPublish \/ CallSearch
    \/ CallFilter \/ CallHandleCreateEvents \/ CallRemovePathsFromIndex

PoisonSpec == PoisonInit /\ [][PoisonNext]_vars


(***************************************************************************)
(* watcher.rs: update_git_status_for_paths when base_path is the git       *)
(* working directory or a directory below it.  Paths are the sequences of  *)
(* their components relative to the working directory; the index holds     *)
(* paths relative to base_path, in path order and without duplicates, so   *)
(* that its binary search is a lookup by equality.                         *)
(***************************************************************************)
RepoFiles == {<<"a">>, <<"sub", "a">>, <<"sub", "b">>}

\* base_path, relative to the working directory Repository::discover found.
WorkspaceRoots == {<<>>, <<"sub">>}

RepoTrees == [RepoFiles -> {"absent", "clean", "modified"}]

starts_with(path, prefix) ==
    Len(prefix) <= Len(path) /\ SubSeq(path, 1, Len(prefix)) = prefix

\* pathdiff::diff_paths(path, base_path) for a path below base_path.
diff_paths(path, base_path) == SubSeq(path, Len(base_path) + 1, Len(path))

\* How the repository matches a pathspec against a path of the working
\* directory: from the root of the working directory ("anchored": the path
\* itself or a directory above it), or at any depth ("anywhere").
PathspecModes == {"anchored", "anywhere"}

pathspec_matches(mode, pathspec, path) ==
    \/ starts_with(path, pathspec)
    \/ /\ mode = "anywhere"
       /\ \E k \in 1..Len(path) : starts_with(SubSeq(path, k, Len(path)), pathspec)

\* The index of the files below base_path that the tree holds, each with no
\* status yet, as a function of the relative paths.
index_below(base_path, tree) ==
    [r \in {diff_paths(q, base_path) :
                q \in {x \in RepoFiles : starts_with(x, base_path) /\ tree[x] # "absent"}}
        |-> None]

\* repo.statuses with the pathspecs of affected_paths: the paths, relative to
\* the working directory, of the changed files a pathspec matches.
status_entries(tree, mode, pathspecs) ==
    {q \in RepoFiles :
        /\ tree[q] = "modified"
        /\ \E pathspec \in pathspecs : pathspec_matches(mode, pathspec, q)}

\* update_git_status_for_paths: the pathspecs are the affected paths relative
\* to base_path; each entry's path is looked up in the index as it is.
update_git_status_for_paths(base_path, tree, mode, index, affected_paths) ==
    LET pathspecs == {diff_paths(p, base_path) : p \in affected_paths}
        entries == status_entries(tree, mode, pathspecs)
    IN [r \in DOMAIN index |-> IF r \in entries THEN Some({"WT_MODIFIED"}) ELSE index[r]]

RefreshCalls ==
    {[base_path |-> b, tree |-> t, mode |-> m, affected_paths |-> a] :
        b \in WorkspaceRoots, t \in RepoTrees, m \in PathspecModes,
        a \in SUBSET RepoFiles}

RefreshInit ==
    /\ FilePicker_new
    /\ file_picker = Some("/work")
    /\ f_ret = Ok("init_file_picker", TRUE)
    /\ h_spawned = 1
    /\ s_call \in {Some(c) : c \in {x \in RefreshCalls :
            /\ x.affected_paths # {}
            /\ \A p \in x.affected_paths :
                  starts_with(p, x.base_path) /\ x.tree[p] # "absent"}}
    /\ s_result = None
    /\ h_candidates = None

CallUpdateGitStatusForPaths ==
    /\ s_call # None
    /\ PureReturn(update_git_status_for_paths(
           s_call[1].base_path, s_call[1].tree, s_call[1].mode,
           index_below(s_call[1].base_path, s_call[1].tree), s_call[1].affected_paths))

RefreshNext == CallUpdateGitStatusForPaths

RefreshSpec == RefreshInit /\ [][RefreshNext]_vars


(***************************************************************************)
(* Properties                                                              *)
(***************************************************************************)
\* The relative paths of a file list, in order.
PathsOf(files) == [i \in 1..Len(files) |-> files[i].relative_path]

StrictlyAscending(seq) == \A i \in 1..(Len(seq) - 1) : seq[i] < seq[i + 1]

NoDuplicates(seq) == \A i, j \in 1..Len(seq) : i # j => seq[i] # seq[j]

Count(seq, x) == Cardinality({i \in 1..Len(seq) : seq[i] = x})

\* C1: after any sequence of update_files (with input sorted as its
\* assertion requires), insert_file_sorted and remove_file_by_path calls, the
\* files of the index are strictly ascending by relative_path: sorted, and no
\* two entries share a path.
C1_IndexStrictlyAscending == StrictlyAscending(PathsOf(sync.files))

\* C2: every step that changes the files of the index (a replacement, an
\* insertion, a removal, or the watcher overwriting an entry's git status)
\* also advances scan_generation by one wrapping increment.
C2_MutationAdvancesGeneration ==
    [][sync'.files # sync.files
         => sync'.scan_generation = wrapping_add(sync.scan_generation)]_vars

\* C3: any two snapshots ever stored in search_snapshot that carry the same
\* generation hold identical file lists, git status and frecency included.
C3_SameGenerationSameFiles ==
    \A s1, s2 \in h_published : s1.generation = s2.generation => s1.files = s2.files

\* C4: the snapshot a searcher can read, and every clone on its way to being
\* stored, is the whole (files, generation) pair of one instant of the index:
\* never the files of one instant with the generation of another.
C4_SnapshotIsWhole ==
    /\ search_snapshot \in h_index
    /\ h_published \subseteq h_index
    /\ w_clone # None => w_clone[1] \in h_index
    /\ d_clone # None => d_clone[1] \in h_index

\* C4 witness: a snapshot of a later generation than the initial one is
\* published whole while the index has already moved on.
C4_StaleWholeSnapshot ==
    /\ search_snapshot.generation > 0
    /\ search_snapshot.files # <<>>
    /\ sync.scan_generation > search_snapshot.generation

\* C5: under any interleaving of the watcher thread, the debouncer callback
\* and manual rescans, the generation of the published snapshot never
\* decreases from one store to the next.
C5_SnapshotGenerationMonotonic ==
    [][search_snapshot'.generation >= search_snapshot.generation]_vars

\* C6 as stated: with Create insertions interleaved with queries in any
\* order, total_files of successive queries never decreases and no query or
\* snapshot shows a path twice.
C6_TotalFilesNeverDecreases ==
    /\ [](NoDuplicates(q_result.items) /\ NoDuplicates(PathsOf(search_snapshot.files)))
    /\ [][q_result'.total_files >= q_result.total_files]_vars

\* C6 amended: the same, for the queries that obtain the snapshot: total_files
\* of successive queries that read the snapshot never decreases, and no query
\* or snapshot shows a path twice.  (A query that times out on the snapshot
\* lock reports SearchResult::default(), total_files = 0.)
C6_ReadQueriesNeverDecrease ==
    /\ [](NoDuplicates(q_result.items) /\ NoDuplicates(PathsOf(search_snapshot.files)))
    /\ [][h_total' >= h_total]_vars

\* C6 witness: a query has read a snapshot that holds an inserted file next
\* to the files of the initial scan.
C6_QueryAfterInsertion ==
    /\ sync.scan_generation = 2
    /\ q_result.total_files = 2
    /\ h_total = 2
    /\ \E s \in h_published : s.generation = 1 /\ Len(s.files) = 1

MatchesRepository(file, statuses) ==
    IF file.relative_path \in DOMAIN statuses
    THEN file.git_status = Some(statuses[file.relative_path])
    ELSE format_git_status(file.git_status) \in {"clear", "clean"}

\* C8: when the handler of a batch returns after the repository answered
\* the status query, every indexed file named by the batch's events carries
\* the status the repository gave, in the index and in the published
\* snapshot; a file that has gone back to unmodified is shown unmodified.
C8_StatusMatchesRepository ==
    (d_pc = "done" /\ d_statuses # None)
    => /\ \A i \in 1..Len(sync.files) :
            sync.files[i].relative_path \in d_affected
            => MatchesRepository(sync.files[i], d_statuses[1])
       /\ \A i \in 1..Len(search_snapshot.files) :
            search_snapshot.files[i].relative_path \in d_affected
            => MatchesRepository(search_snapshot.files[i], d_statuses[1])

\* C9: the steps of a thread whose scan_filesystem failed, from the failure
\* to its store of is_scanning, leave the index (files and generation) and
\* the published snapshot as they were, and the last of them sets
\* is_scanning to false; this holds for the initial scan and for a rescan.
C9_FailedScanChangesNothing ==
    [][/\ (w_pc = "scan" /\ w_pc' = "scan_failed")
            => UNCHANGED <<sync, search_snapshot>>
       /\ (w_pc = "scan_failed" /\ w_pc' # "scan_failed")
            => (UNCHANGED <<sync, search_snapshot>> /\ is_scanning' = FALSE)
       /\ \A r \in RescanIds :
            /\ (r_pc[r] = "scan" /\ r_pc'[r] = "failed")
                 => UNCHANGED <<sync, search_snapshot>>
            /\ (r_pc[r] = "failed" /\ r_pc'[r] # "failed")
                 => (UNCHANGED <<sync, search_snapshot>> /\ is_scanning' = FALSE)]_vars

\* C9 witness: the initial scan has failed and the thread has gone on: the
\* index and the snapshot are still the initial ones, is_scanning is false.
C9_InitialScanFailed ==
    /\ w_pc = "waiting"
    /\ h_index = {create_search_snapshot(FileSync_new)}
    /\ search_snapshot = [files |-> <<>>, generation |-> 0]
    /\ ~is_scanning
    /\ r_pc = [r \in RescanIds |-> "idle"]

\* C10: once stop_background_monitor has been called (and the picker is not
\* dropped), a watcher thread waiting on the shutdown condition variable is
\* eventually woken and exits.
C10_StopWakesWatcher ==
    (shutdown_signal /\ ~dropped /\ w_pc = "waiting") ~> (w_pc = "exited")

(***************************************************************************)
(* C11: a query that finds the snapshot write-locked during its whole      *)
(* retry window returns the empty SearchResult (no items, no scores,       *)
(* total_matched 0, total_files 0) and changes neither the index nor the   *)
(* snapshot nor the lock it could not take.                                *)
(***************************************************************************)
C11_TimedOutQueryReturnsEmpty ==
    [][(snap_writer # None /\ q_result' # q_result) =>
          /\ q_result' = [items |-> <<>>, scores |-> <<>>,
                          total_matched |-> 0, total_files |-> 0]
          /\ sync' = sync
          /\ search_snapshot' = search_snapshot
          /\ snap_writer' = snap_writer]_vars

\* A query read a non-empty snapshot, and a later one timed out on a
\* write-locked, non-empty snapshot: its answer is the empty result.
C11_QueryTimedOut ==
    /\ snap_writer # None
    /\ Len(search_snapshot.files) > 0
    /\ h_total > 0
    /\ q_result.total_files = 0
    /\ q_result.items = <<>>

\* The picker's own state: everything but the facade's.
pickerVars ==
    <<sync, sync_writer, search_snapshot, snap_writer, is_scanning,
      shutdown_signal, shutdown_flag, dropped, w_pc, w_scan, w_clone,
      d_pc, d_batch, d_i, d_affected, d_statuses, d_clone, r_pc, r_scan,
      q_result>>

\* This step is init_file_picker answering something it had not answered
\* just before.
InitAnswered == f_ret'.call = "init_file_picker" /\ f_ret' # f_ret

(***************************************************************************)
(* C12: init_file_picker installs a picker, and returns true, only when    *)
(* none is installed; once one is installed every call returns false and   *)
(* leaves the installed picker as it is; at most one picker, and so one    *)
(* watcher thread, is ever built.                                          *)
(***************************************************************************)
C12_InitInstallsOnce ==
    /\ [](h_spawned <= 1 /\ (file_picker # None <=> h_spawned = 1))
    /\ [][/\ (h_spawned' # h_spawned \/ file_picker' # file_picker) =>
                /\ file_picker = None
                /\ file_picker' # None
                /\ h_spawned' = h_spawned + 1
                /\ f_ret' = Ok("init_file_picker", TRUE)
          /\ (file_picker # None /\ InitAnswered) =>
                /\ f_ret' = Ok("init_file_picker", FALSE)
                /\ UNCHANGED <<file_picker, h_spawned, pickerVars>>
          /\ (InitAnswered /\ f_ret' = Ok("init_file_picker", TRUE)) =>
                file_picker = None]_vars

\* A picker was installed, its watcher thread has run, and a later
\* init_file_picker returned false.
C12_LaterInitRefused ==
    /\ file_picker # None
    /\ w_pc # "start"
    /\ f_ret = Ok("init_file_picker", FALSE)

(***************************************************************************)
(* C13: while no picker is installed, each of scan_files,                  *)
(* get_cached_files, fuzzy_search_files, get_scan_progress, is_scanning,   *)
(* refresh_git_status, stop_background_monitor and wait_for_initial_scan   *)
(* returns the "not initialized" error and changes nothing.                *)
(***************************************************************************)
C13_UninitializedCallsFail ==
    [][(file_picker = None /\ f_ret'.call \in FacadeCalls) =>
          /\ f_ret' = Err(f_ret'.call, NotInitialized)
          /\ UNCHANGED <<file_picker, h_spawned, pickerVars, histVars, h_total,
                         h_len0, h_fresh, h_rescanned>>]_vars

\* fuzzy_search_files was called with no picker installed, after a failed
\* init_file_picker or none, and was refused.
C13_SearchRefused ==
    /\ file_picker = None
    /\ f_ret = Err("fuzzy_search_files", NotInitialized)

\* Some entry of files has the relative path p.
InIndex(files, p) == \E i \in 1..Len(files) : files[i].relative_path = p

(***************************************************************************)
(* C14: insert_file_sorted, as the watcher calls it for a Create event:    *)
(* on a path the index holds, files and scan_generation stay as they are;  *)
(* on a path it does not hold, exactly one entry for the path is added at  *)
(* its sorted position, every other entry keeps its place in the order,    *)
(* and scan_generation advances by one.  (A created path that the ignore   *)
(* rules match is not inserted at all.)                                    *)
(***************************************************************************)
C14_InsertFileSortedFrame ==
    [][(d_pc = "create" /\ d_pc' = "pub_read") =>
          LET p == CurrentEvent.path
              files == sync.files
          IN IF InIndex(files, p)
             THEN sync' = sync
             ELSE \/ sync' = sync
                  \/ /\ sync'.scan_generation = wrapping_add(sync.scan_generation)
                     /\ \E k \in 0..Len(files) :
                          /\ sync'.files = VecInsert(files, k, sync'.files[k + 1])
                          /\ sync'.files[k + 1].relative_path = p
                          /\ \A i \in 1..k : files[i].relative_path < p
                          /\ \A i \in (k + 1)..Len(files) : p < files[i].relative_path]_vars

(***************************************************************************)
(* C15: in every state the index reaches and for every path,               *)
(* remove_file_by_path returns true exactly when the index holds the path; *)
(* on true exactly one entry, one with that path, is gone, the others keep *)
(* their order and scan_generation has advanced by one; on false files and *)
(* scan_generation are unchanged.                                          *)
(***************************************************************************)
C15_RemoveFileByPathFrame ==
    \A p \in Paths :
        LET files == sync.files
            returned == remove_file_by_path_returns(sync, p)
            after == remove_file_by_path(sync, p)
        IN /\ returned <=> InIndex(files, p)
           /\ returned =>
                /\ after.scan_generation = wrapping_add(sync.scan_generation)
                /\ \E k \in 0..(Len(files) - 1) :
                     /\ files[k + 1].relative_path = p
                     /\ after.files = VecRemove(files, k)
           /\ ~returned => after = sync

(***************************************************************************)
(* C16: for every query of byte length below 2, the empty query included,  *)
(* and every snapshot, the scorer returns exactly one result per file of   *)
(* the snapshot, each with match_type "frecency", so that total_matched    *)
(* equals total_files.                                                     *)
(***************************************************************************)
C16_ShortQueryScoresEveryFile ==
    (s_result # None /\ str_len(s_call[1].query) < 2) =>
        LET files == s_call[1].files
            scored == h_candidates[1]
            r == s_result[1]
        IN /\ Len(scored) = Len(files)
           /\ \A i \in 0..(Len(files) - 1) :
                Cardinality({k \in 1..Len(scored) : scored[k].idx = i}) = 1
           /\ \A k \in 1..Len(scored) : scored[k].score.match_type = "frecency"
           /\ \A k \in 1..Len(r.scores) : r.scores[k].match_type = "frecency"
           /\ r.total_matched = Len(files)
           /\ r.total_matched = r.total_files

\* The one-byte query "l" was searched in a snapshot of two files.
C16_OneByteQuerySearched ==
    /\ s_result # None
    /\ s_call[1].query = <<"l">>
    /\ Len(s_call[1].files) = 2
    /\ s_result[1].total_matched = 2

\* The demotion the claim gives the current file.
Demotion(file) ==
    IF file.git_status # None
       /\ file.git_status[1] \cap {"WT_MODIFIED", "INDEX_MODIFIED", "WT_NEW",
                                   "INDEX_NEW", "WT_RENAMED"} # {}
    THEN 150 ELSE 300

\* The totals of C17 for the candidates scored, the current file being an
\* indexed one: the current file is demoted, no other file is.
CurrentFileTotals ==
    LET files == s_call[1].files
        scored == h_candidates[1]
    IN \A k \in 1..Len(scored) :
         LET file == files[scored[k].idx + 1]
             score == scored[k].score
         IN score.total =
              score.frecency_boost + score.distance_penalty
              - (IF file.relative_path = s_call[1].current_file[1]
                 THEN Demotion(file) ELSE 0)

\* The current file, if it is among the items returned, is the last of them
\* and no candidate was dropped.
CurrentFileLast ==
    LET r == s_result[1] IN
    \A k \in 1..Len(r.items) :
        r.items[k].relative_path = s_call[1].current_file[1] =>
            (k = Len(r.items) /\ Len(r.items) = r.total_matched)

\* The search is over, and its current_file is the path of a snapshot file.
SearchedWithCurrentFileIndexed ==
    /\ s_result # None
    /\ s_call[1].current_file # None
    /\ \E i \in 1..Len(s_call[1].files) :
          s_call[1].files[i].relative_path = s_call[1].current_file[1]

(***************************************************************************)
(* C17, as claimed: for a query shorter than 2 characters with             *)
(* current_file the relative path of an indexed file, that file's total is *)
(* frecency_boost + distance_penalty - 300 (- 150 when its git status is   *)
(* modification-kind), every other file's total has no demotion, and the   *)
(* current file is ranked last in the result.                              *)
(***************************************************************************)
C17_CurrentFileDemotedAndLast ==
    (SearchedWithCurrentFileIndexed /\ Len(s_call[1].query) < 2) =>
        (CurrentFileTotals /\ CurrentFileLast)

(***************************************************************************)
(* C17, amended: for a query of byte length below 2 with current_file the  *)
(* relative path of an indexed file, that file's total is frecency_boost + *)
(* distance_penalty - 300 (- 150 when its git status is modification-kind),*)
(* every other file's total has no demotion, and the current file is       *)
(* ranked last whenever every other file's total is above its own.         *)
(***************************************************************************)
C17_CurrentFileDemoted ==
    (SearchedWithCurrentFileIndexed /\ str_len(s_call[1].query) < 2) =>
        /\ CurrentFileTotals
        /\ LET files == s_call[1].files
               scored == h_candidates[1]
               IsCurrent(k) ==
                   files[scored[k].idx + 1].relative_path = s_call[1].current_file[1]
           IN (\A k, c \in 1..Len(scored) :
                  (IsCurrent(c) /\ ~IsCurrent(k)) =>
                      scored[k].score.total > scored[c].score.total)
              => CurrentFileLast

\* The empty query was searched with src/lib.rs, modified in the working
\* tree, as current file and one more file in the snapshot: src/lib.rs is
\* returned last, 150 below its frecency and distance.
C17_ModifiedCurrentFileLast ==
    /\ SearchedWithCurrentFileIndexed
    /\ s_call[1].query = <<>>
    /\ s_call[1].current_file = Some(ScorePaths[2])
    /\ Len(s_result[1].items) = 2
    /\ s_result[1].items[2].relative_path = ScorePaths[2]
    /\ s_result[1].items[2].git_status = Some({"WT_MODIFIED"})
    /\ s_result[1].scores[2].total =
          s_result[1].scores[2].frecency_boost
          + s_result[1].scores[2].distance_penalty - 150

\* The filename bonus table of C18 read on one score: exactRow says whether
\* the first row applies to the basename and the query.
FilenameBonusRows(score, query, filename, exactRow) ==
    LET base == score.base_score
        row == IF exactRow THEN 1
               ELSE IF contains(to_lowercase(filename), to_lowercase(query)) THEN 2
               ELSE IF is_special_entry_point_file(filename) THEN 3
               ELSE 4
    IN /\ row = 1 => /\ score.filename_bonus = (base \div 5) * 2
                     /\ score.match_type = "exact_filename"
       /\ row = 2 => /\ score.filename_bonus = base \div 5
                     /\ score.match_type = "fuzzy_filename"
       /\ row = 3 => /\ score.filename_bonus = (base * 18) \div 100
                     /\ score.match_type = "fuzzy_path"
       /\ row = 4 => /\ score.filename_bonus = 0
                     /\ score.match_type = "fuzzy_path"
       /\ score.special_filename_bonus = (IF row = 3 THEN score.filename_bonus ELSE 0)

\* The search is over and took the main scoring path.
SearchedOnMainPath == s_result # None /\ str_len(s_call[1].query) >= 2

(***************************************************************************)
(* C18, as claimed: on the main scoring path the filename bonus of every   *)
(* candidate is that of the first matching row, the first row being        *)
(* "basename equals query ignoring case".                                  *)
(***************************************************************************)
C18_FilenameBonusIgnoringCase ==
    SearchedOnMainPath =>
        \A k \in 1..Len(h_candidates[1]) :
            LET filename == s_call[1].files[h_candidates[1][k].idx + 1].file_name
                query == s_call[1].query
            IN FilenameBonusRows(h_candidates[1][k].score, query, filename,
                                 to_lowercase(filename) = to_lowercase(query))

(***************************************************************************)
(* C18, amended: on the main scoring path the filename bonus of every      *)
(* candidate is that of the first matching row, the first row being        *)
(* "basename equals query ignoring ASCII case": (base/5)*2 exact_filename, *)
(* else lowercased basename contains lowercased query: base/5              *)
(* fuzzy_filename, else entry-point basename: base*18/100 fuzzy_path, else *)
(* 0 fuzzy_path; special_filename_bonus is the filename bonus exactly when *)
(* the entry-point row fired and 0 otherwise.                              *)
(***************************************************************************)
C18_FilenameBonusFirstRow ==
    SearchedOnMainPath =>
        \A k \in 1..Len(h_candidates[1]) :
            LET filename == s_call[1].files[h_candidates[1][k].idx + 1].file_name
                query == s_call[1].query
            IN FilenameBonusRows(h_candidates[1][k].score, query, filename,
                                 eq_ignore_ascii_case(filename, query))

\* The query LIB.RS matched main.rs and src/lib.rs: src/lib.rs has the exact
\* row's bonus and main.rs the entry-point row's.
C18_ExactAndEntryPointRows ==
    /\ SearchedOnMainPath
    /\ s_call[1].query = <<"L", "I", "B", ".", "R", "S">>
    /\ Len(s_call[1].files) = 2
    /\ s_call[1].files[1].relative_path = ScorePaths[1]
    /\ s_call[1].files[2].relative_path = ScorePaths[2]
    /\ \E k, m \in 1..Len(h_candidates[1]) :
          /\ h_candidates[1][k].idx = 0
          /\ h_candidates[1][k].score.match_type = "fuzzy_path"
          /\ h_candidates[1][k].score.special_filename_bonus = 18
          /\ h_candidates[1][m].idx = 1
          /\ h_candidates[1][m].score.match_type = "exact_filename"
          /\ h_candidates[1][m].score.filename_bonus = 40

(***************************************************************************)
(* C19: with index [src/lib.rs, src/library.rs] at equal frecency and      *)
(* query lib, both files matched, src/lib.rs is the first item returned    *)
(* and its score has special_filename_bonus > 0.                           *)
(***************************************************************************)
C19_LibRsFirstBySpecialBonus ==
    (/\ s_result # None
     /\ s_call[1].query = <<"l", "i", "b">>
     /\ s_call[1].max_results >= 1
     /\ Len(s_call[1].files) = 2
     /\ s_call[1].files[1].relative_path = ScorePaths[2]
     /\ s_call[1].files[2].relative_path = ScorePaths[3]
     /\ s_call[1].files[1].total_frecency_score = s_call[1].files[2].total_frecency_score
     /\ s_result[1].total_matched = 2)
    => /\ s_result[1].items[1].relative_path = ScorePaths[2]
       /\ s_result[1].scores[1].special_filename_bonus > 0

\* Candidate a ranks at or above candidate b: a higher total, or the same
\* total and a modification time at least as late.
RanksAtOrAbove(files, a, b) ==
    \/ a.score.total > b.score.total
    \/ /\ a.score.total = b.score.total
       /\ files[a.idx + 1].modified >= files[b.idx + 1].modified

(***************************************************************************)
(* C20: the items returned by fuzzy_search are the first min(max_results,  *)
(* total_matched) candidates of the matched set in the order of descending *)
(* total and, among equal totals, descending modification time: items[i]   *)
(* pairs with scores[i], every returned candidate ranks at or above every  *)
(* dropped one, total_matched is the number of candidates before           *)
(* truncation and total_files the size of the snapshot.                    *)
(***************************************************************************)
C20_ResultIsTopOfRanking ==
    s_result # None =>
        LET r == s_result[1]
            files == s_call[1].files
            cand == h_candidates[1]
            n == Min(s_call[1].max_results, r.total_matched)
        IN /\ r.total_matched = Len(cand)
           /\ r.total_files = Len(files)
           /\ Len(r.items) = n
           /\ Len(r.scores) = n
           /\ \E pick \in [1..n -> 1..Len(cand)] :
                 /\ \A i, j \in 1..n : i # j => pick[i] # pick[j]
                 /\ \A i \in 1..n :
                       /\ r.items[i] = files[cand[pick[i]].idx + 1]
                       /\ r.scores[i] = cand[pick[i]].score
                 /\ \A i, j \in 1..n :
                       i < j => RanksAtOrAbove(files, cand[pick[i]], cand[pick[j]])
                 /\ \A i \in 1..n :
                       \A d \in 1..Len(cand) :
                           (\A j \in 1..n : pick[j] # d) =>
                               RanksAtOrAbove(files, cand[pick[i]], cand[d])

\* Two candidates of equal total were found and one item asked for: the
\* later modified one is returned, the other dropped, total_matched is 2.
C20_TieBrokenByModifiedThenTruncated ==
    /\ s_result # None
    /\ s_call[1].max_results = 1
    /\ Len(h_candidates[1]) = 2
    /\ h_candidates[1][1].score.total = h_candidates[1][2].score.total
    /\ s_result[1].total_matched = 2
    /\ Len(s_result[1].items) = 1
    /\ s_result[1].items[1].modified = 2
    /\ \E i \in 1..2 : s_call[1].files[i].modified = 1

\* The call of its own was of fn and has returned.
Returned(fn) == s_call[1].fn = fn /\ s_result # None

(***************************************************************************)
(* C21: for every query length n the max_typos passed to the scorer is     *)
(* clamp(floor(n / 4), 2, 6): 2 for n < 12, floor(n / 4) for 12 <= n < 24  *)
(* and 6 for every n >= 24, lengths of 2^16 and more included.             *)
(***************************************************************************)
C21_MaxTyposIsClampedQuarter ==
    Returned("max_typos") =>
        LET n == s_call[1].query_len IN
        s_result[1].n = (IF n < 12 THEN 2 ELSE IF n < 24 THEN n \div 4 ELSE 6)

\* The penalty of C22 for parent directories of normal components cur and
\* cand: r is per_level times the distance, the distance capped at 10.
IsCappedDistancePenalty(r, cur, cand, per_level) ==
    LET c == common_prefix_len(cur, cand)
        d == (Len(cur) - c) + (Len(cand) - c)
        k == Min(d, 10)
    IN /\ k = 0 => r = 0
       /\ k > 0 => (r % k = 0 /\ r \div k = per_level)

\* The normal components of a path's parent directory, none if the path has
\* no parent.
ParentNormals(path) ==
    IF Path_parent(path) = None THEN <<>> ELSE normal_components(Path_parent(path)[1])

(***************************************************************************)
(* C22: calculate_directory_distance_penalty returns 0 when there is no    *)
(* current file or both files have the same parent directory; otherwise,   *)
(* with c the length of the longest common prefix of the parents' normal   *)
(* components and d = (len(current) - c) + (len(candidate) - c), it        *)
(* returns d * per_level_penalty limited in magnitude to 10 *              *)
(* per_level_penalty, the sign of per_level_penalty kept.                  *)
(***************************************************************************)
C22_DistancePenaltyIsCappedProduct ==
    Returned("calculate_directory_distance_penalty") =>
        LET cur == s_call[1].current_file
            cand == s_call[1].candidate_path
            r == s_result[1].n
        IN IF cur = None THEN r = 0
           ELSE IF Path_parent(cur[1]) = Path_parent(cand) THEN r = 0
           ELSE IsCappedDistancePenalty(r, ParentNormals(cur[1]), ParentNormals(cand),
                                        s_call[1].penalty_per_level)

(***************************************************************************)
(* C23: for all paths a, b and every per-level penalty p, the distance     *)
(* penalty of a to itself is 0 and the penalty of b seen from a is that of *)
(* a seen from b; paths without a parent directory, root-level files and   *)
(* paths with '.' or '..' components are among them.                       *)
(***************************************************************************)
C23_DistancePenaltySymmetric ==
    (Returned("calculate_directory_distance_penalty") /\ s_call[1].current_file # None) =>
        LET a == s_call[1].current_file[1]
            b == s_call[1].candidate_path
            p == s_call[1].penalty_per_level
        IN /\ a = b => s_result[1].n = 0
           /\ s_result[1].n = calculate_directory_distance_penalty(Some(b), a, p)

\* The penalty of "f" seen from "a/../f" was asked for at -2 per level and
\* is -2: one level apart.
C23_ParentDirPathOneLevelApart ==
    /\ Returned("calculate_directory_distance_penalty")
    /\ s_call[1].current_file = Some(<<<<"a">>, ParentDir, <<"f">>>>)
    /\ s_call[1].candidate_path = <<<<"f">>>>
    /\ s_call[1].penalty_per_level = -2
    /\ s_result[1].n = -2

\* The symbol C24 gives a flag set: the first set flag in the order of
\* precedence decides, the empty set is clean, any other set unknown.
RECURSIVE SymbolByPrecedence(_, _)
SymbolByPrecedence(flags, rows) ==
    IF rows = <<>> THEN (IF flags = {} THEN "clean" ELSE "unknown")
    ELSE IF rows[1][1] \in flags THEN rows[1][2]
    ELSE SymbolByPrecedence(flags, Tail(rows))

PrecedenceRows ==
    <<<<"WT_NEW", "untracked">>, <<"WT_MODIFIED", "modified">>,
      <<"WT_DELETED", "deleted">>, <<"WT_RENAMED", "renamed">>,
      <<"INDEX_NEW", "staged_new">>, <<"INDEX_MODIFIED", "staged_modified">>,
      <<"INDEX_DELETED", "staged_deleted">>, <<"IGNORED", "ignored">>>>

(***************************************************************************)
(* C24: for every optional git status, format_git_status returns one of    *)
(* the eleven symbols, chosen by precedence: None gives clear; the first   *)
(* set flag among WT_NEW, WT_MODIFIED, WT_DELETED, WT_RENAMED, INDEX_NEW,  *)
(* INDEX_MODIFIED, INDEX_DELETED, IGNORED decides; the empty set gives     *)
(* clean; any other set gives unknown.                                     *)
(***************************************************************************)
C24_StatusSymbolByPrecedence ==
    Returned("format_git_status") =>
        s_result[1].s = (IF s_call[1].status = None THEN "clear"
                         ELSE SymbolByPrecedence(s_call[1].status[1], PrecedenceRows))

(***************************************************************************)
(* C25: no thread holds the lock of the index (sync_data) and the lock of  *)
(* the snapshot (search_snapshot) at the same time: the initial scan, the  *)
(* watcher's handlers, the publications and the manual rescan thread all   *)
(* release the first before they take the second.                          *)
(***************************************************************************)
C25_NeverBothLocks ==
    ~(sync_writer # None /\ snap_writer = sync_writer)

(***************************************************************************)
(* C26: the frecency tracker and the matcher are never called by a thread  *)
(* that holds the lock of the index or of the snapshot: not by the bulk    *)
(* refresh inside update_files, not by the refresh after a git-status      *)
(* edit, not by the matching inside fuzzy_search.                          *)
(***************************************************************************)
C26_ExternalCallsHoldNoLock ==
    \A c \in h_calls : c.held = {}

\* This step is a call of update_files by the initial scan or by a manual
\* rescan.
ScanUpdatesIndex ==
    \/ w_pc = "update" /\ w_pc' = "pub_read"
    \/ \E r \in RescanIds : r_pc[r] = "update" /\ r_pc'[r] = "snap_lock"

(***************************************************************************)
(* C27: on the initial scan and on a manual rescan the list that           *)
(* scan_filesystem returned is sorted by relative path before it is passed *)
(* to update_files: the list update_files receives is in order at both     *)
(* call sites, and after either scan binary search by relative path finds  *)
(* every indexed file.                                                     *)
(***************************************************************************)
C27_ScansSortBeforeUpdate ==
    [][ScanUpdatesIndex =>
          /\ IsSortedInput(sync'.files)
          /\ \A i \in 1..Len(sync'.files) :
                find_file_index(sync', sync'.files[i].relative_path).found]_vars

\* This step is the git-status refresh of the batch: the statuses are fetched
\* and written into the index by update_git_status_for_paths.
RefreshesGitStatus == d_pc = "git" /\ d_pc' = "pub_read"

\* The paths of the batch's events of the given kinds.
PathsOfKinds(kinds) ==
    {d_batch[i].path : i \in {j \in 1..Len(d_batch) : d_batch[j].kind \in kinds}}

\* The batch has no Remove event for the path after a Create event for it.
CreatedLast(p) ==
    \A i \in 1..Len(d_batch), j \in 1..Len(d_batch) :
        (d_batch[i] = [kind |-> "Create", path |-> p] /\ i < j)
            => d_batch[j] # [kind |-> "Remove", path |-> p]

SnapshotShows(snapshot, p) ==
    \E i \in 1..Len(snapshot.files) : snapshot.files[i].relative_path = p

(***************************************************************************)
(* C28: within one batch the refresh of the git statuses runs once, after  *)
(* every event of the batch has been handled, over paths of the batch's    *)
(* Create, Modify and other events only; a file that a Create event of the *)
(* batch inserted is covered by the refresh, and when the refresh runs it  *)
(* is already in the index and in the published snapshot (unless a later   *)
(* Remove event of the batch names it).                                    *)
(***************************************************************************)
C28_RefreshOnceAfterInsertAndPublish ==
    [][RefreshesGitStatus =>
          /\ d_i = Len(d_batch)
          /\ d_statuses = None
          /\ d_affected \subseteq PathsOfKinds({"Create", "Modify", "Other"})
          /\ DOMAIN d_statuses'[1] \subseteq d_affected
          /\ h_fresh \subseteq d_affected
          /\ \A p \in h_fresh :
                CreatedLast(p) =>
                    /\ SnapshotShows(sync, p)
                    /\ SnapshotShows(search_snapshot, p)]_vars

\* The refresh has run for a batch of a Create and a Modify event of two
\* paths: the created file was inserted and both paths have a status entry.
C28_RefreshAfterCreateAndModify ==
    /\ d_statuses # None
    /\ Len(d_batch) = 2
    /\ d_batch[1].kind = "Create"
    /\ d_batch[2].kind = "Modify"
    /\ d_batch[1].path # d_batch[2].path
    /\ h_fresh = {d_batch[1].path}
    /\ DOMAIN d_statuses[1] = {d_batch[1].path, d_batch[2].path}
    /\ SnapshotShows(search_snapshot, d_batch[1].path)

\* This step stores a snapshot on behalf of the batch being handled.
BatchPublishes == d_pc = "pub_store" /\ d_pc' # "pub_store"

\* The events of the batch whose handling has begun: those already handled,
\* and the one whose own publication this is.
HandledEvents == 1..(IF d_i < Len(d_batch) THEN d_i + 1 ELSE d_i)

\* The paths of the handled Remove events that no later handled Create event
\* names.
RemovedPaths ==
    {d_batch[j].path : j \in {k \in HandledEvents :
        /\ d_batch[k].kind = "Remove"
        /\ \A c \in HandledEvents :
              c > k => d_batch[c] # [kind |-> "Create", path |-> d_batch[k].path]}}

(***************************************************************************)
(* C29: within one batch, once a Remove event has been handled, no         *)
(* snapshot the batch publishes afterwards shows the removed path, unless  *)
(* a later Create event of the batch names it again.                       *)
(***************************************************************************)
C29_PublishedAfterRemoveOmitsPath ==
    [][BatchPublishes =>
          \A p \in RemovedPaths : ~SnapshotShows(search_snapshot', p)]_vars

\* This step is the filter of the handler deciding about the current event,
\* whose path is in no entry of the index.
FiltersUnindexedEvent ==
    /\ d_pc = "filter"
    /\ ~SnapshotShows(sync, CurrentEvent.path)
    /\ (d_pc' # d_pc \/ d_i' # d_i)

\* This step handles a Modify or a Remove event: its filter, or the removal.
HandlesModifyOrRemove ==
    /\ d_pc \in {"filter", "remove"}
    /\ CurrentEvent.kind \in {"Modify", "Remove"}
    /\ (d_pc' # d_pc \/ d_i' # d_i)

IndexedPaths(s) == {s.files[i].relative_path : i \in 1..Len(s.files)}

(***************************************************************************)
(* C30: an event whose path is outside the index, and which is not a       *)
(* Create event that should_add_new_file lets through, changes nothing:    *)
(* the handler goes on to the next event with the index (files and         *)
(* scan_generation), the snapshot and affected_paths as they were, and     *)
(* nothing is published.  The handling of a Modify or a Remove event never *)
(* adds a file to the index.                                               *)
(***************************************************************************)
C30_IrrelevantEventChangesNothing ==
    [][/\ (FiltersUnindexedEvent /\ (CurrentEvent.kind # "Create" \/ d_pc' # "create"))
            => /\ sync' = sync
               /\ search_snapshot' = search_snapshot
               /\ h_index' = h_index
               /\ h_published' = h_published
               /\ d_affected' = d_affected
               /\ d_i' = d_i + 1
               /\ d_pc' = AfterEvent(d_i + 1, d_affected)
       /\ HandlesModifyOrRemove => IndexedPaths(sync') \subseteq IndexedPaths(sync)]_vars

\* The first event of a batch of two, a Remove event for a path outside a
\* non-empty index, has been skipped: the index is as long as it was when the
\* batch arrived and the snapshot still equals it.
C30_UnindexedRemoveSkipped ==
    /\ d_pc = "filter"
    /\ d_i = 1
    /\ d_batch[1].kind = "Remove"
    /\ ~SnapshotShows(sync, d_batch[1].path)
    /\ h_len0 > 0
    /\ Len(sync.files) = h_len0
    /\ search_snapshot.files = sync.files

\* The lock with the same value, not poisoned.
Recovered(lock) == RwLock(lock.value, FALSE)

(***************************************************************************)
(* C31: when the lock of the index or of the snapshot is poisoned, every   *)
(* operation that uses it (get_cached_files, the snapshot read of a        *)
(* search, the publication, the filter of the watcher and its two          *)
(* mutations) answers and leaves behind what it would with the same value  *)
(* in a sound lock: it carries on with the inner value.                    *)
(***************************************************************************)
C31_PoisonedLockRecovered ==
    s_result # None =>
        s_result[1] = lock_operation(s_call[1], Recovered(s_call[1].sync_lock),
                                     Recovered(s_call[1].snap_lock))

\* The threads that hold the write guard of a lock.
LockHolders ==
    {sync_writer[i] : i \in DOMAIN sync_writer} \cup {snap_writer[i] : i \in DOMAIN snap_writer}

\* The thread can take its next step: it is not waiting for a lock.
CanStep(t) ==
    CASE t = WatcherThread -> ENABLED WatcherRun
      [] t = DebouncerThread -> ENABLED DebouncerStep
      [] OTHER -> \E r \in RescanIds :
                     /\ t = RescanThread(r)
                     /\ ENABLED (RescanSnapLock(r) \/ RescanStore(r) \/ RescanEnd(r))

(***************************************************************************)
(* C32: no deadlock over the locks of the index and of the snapshot: in    *)
(* every state each thread that holds a lock can either take its next step *)
(* or waits for the other lock while the thread holding that one can take  *)
(* its next step; no two threads wait for each other.                      *)
(***************************************************************************)
C32_NoLockCycle ==
    \A t \in LockHolders :
        \/ CanStep(t)
        \/ \E u \in LockHolders \ {t} : CanStep(u)

\* The rescan thread holds the index lock and waits for the snapshot lock,
\* which the debouncer callback holds for its publication.
C32_RescanWaitsForPublisher ==
    /\ sync_writer = Some(RescanThread(1))
    /\ r_pc[1] = "snap_lock"
    /\ snap_writer = Some(DebouncerThread)
    /\ d_pc = "pub_store"

\* No scan, batch or publication is under way: the watcher thread waits (or
\* ended when the watch could not start), the debouncer callback is idle, no
\* rescan thread runs and no lock is held.
Quiescent ==
    /\ w_pc \in {"waiting", "exited"}
    /\ d_pc = "idle"
    /\ \A r \in RescanIds : r_pc[r] = "idle"
    /\ sync_writer = None
    /\ snap_writer = None

(***************************************************************************)
(* C33: at quiescence the published snapshot equals the index: the same    *)
(* files and snapshot.generation = scan_generation.                        *)
(***************************************************************************)
C33_QuiescentSnapshotEqualsIndex ==
    Quiescent => search_snapshot = create_search_snapshot(sync)

\* This step is update_files called by an initial scan or a rescan thread.
RescanReplacesIndex(r) == r_pc[r] = "update" /\ r_pc'[r] = "snap_lock"

(***************************************************************************)
(* C34: a file the watcher inserted on a Create event is still in the      *)
(* index after a concurrent manual rescan has stored a scan result that    *)
(* was taken before the insertion, as long as no Remove event for the file *)
(* has been handled.                                                       *)
(***************************************************************************)
C34_RescanKeepsInsertedFile ==
    [][\A r \in RescanIds :
          RescanReplacesIndex(r) =>
              \A p \in Paths :
                  (<<r, p>> \in h_stale /\ p \in IndexedPaths(sync))
                      => p \in IndexedPaths(sync')]_vars

\* The initial scan is at work: between scan_signal.store(true) and the end
\* of its publication.
InitialScanRunning == w_pc \in {"scan", "update", "pub_read", "pub_lock", "pub_store"}

\* A manual rescan is at work: its thread scans, updates or publishes.
RescanRunning(r) == r_pc[r] \in {"scan", "update", "snap_lock", "store"}

(***************************************************************************)
(* C35: is_scanning is true in every state in which the initial scan or a  *)
(* manual rescan is still at work; a scan that ends does not clear the     *)
(* flag while another one is in progress.                                  *)
(***************************************************************************)
C35_ScanningWhileAnyScanRuns ==
    (InitialScanRunning \/ \E r \in RescanIds : RescanRunning(r)) => is_scanning

\* The initial scan of the installed picker has not finished: its thread has
\* not yet run, or it scans, updates the index or publishes.
InitialScanPending ==
    /\ file_picker # None
    /\ w_pc \in {"start", "scan", "update", "pub_read", "pub_lock", "pub_store"}

(***************************************************************************)
(* C36: from the return of init_file_picker until the initial scan has     *)
(* updated the index and published its snapshot (or failed) is_scanning    *)
(* reads true, and wait_for_initial_scan has answered true only when the   *)
(* initial scan had finished.                                              *)
(***************************************************************************)
C36_ScanningUntilInitialScanDone ==
    InitialScanPending =>
        /\ is_scanning
        /\ f_ret # Ok("wait_for_initial_scan", TRUE)

(***************************************************************************)
(* C37: once the FilePicker is dropped, whether its watcher thread is      *)
(* still scanning, is about to wait or already waits, the thread           *)
(* eventually leaves its wait loop and terminates.                         *)
(***************************************************************************)
C37_DropEndsWatcherThread ==
    dropped ~> (w_pc = "exited")

\* The picker was dropped while its watcher thread waits on the condition
\* variable: the flag under the mutex is set and the thread is still inside
\* the loop.
C37_DroppedWhileWaiting ==
    /\ dropped
    /\ shutdown_flag
    /\ w_pc = "waiting"

\* The kind of the last Create or Remove event of the batch that names the
\* path, "none" when no such event names it.
LastMembershipEvent(p) ==
    LET named == {i \in 1..Len(d_batch) :
                     d_batch[i].path = p /\ d_batch[i].kind \in {"Create", "Remove"}}
    IN IF named = {} THEN "none"
       ELSE d_batch[CHOOSE i \in named : \A j \in named : j <= i].kind

\* The paths whose membership a step of the handler may change: the path of
\* the Create or Remove event being handled.
MayChangeMembership ==
    IF d_pc \in {"create", "remove"} THEN {CurrentEvent.path} ELSE {}

(***************************************************************************)
(* C38: when a batch has been fully handled, a path whose last Create or   *)
(* Remove event in batch order is a Remove is not in the index, and a path *)
(* whose last such event is a Create that inserted it is in the index;     *)
(* while the batch is handled no step changes the membership of any path   *)
(* other than the one its Create or Remove event names.                    *)
(***************************************************************************)
C38_MembershipFollowsLastEvent ==
    /\ [](d_pc = "done" =>
             \A p \in Paths :
                 /\ LastMembershipEvent(p) = "Remove" => p \notin IndexedPaths(sync)
                 /\ (LastMembershipEvent(p) = "Create" /\ CreatedLast(p) /\ p \in h_fresh)
                        => p \in IndexedPaths(sync))
    /\ [][d_pc # "idle" =>
             \A p \in Paths \ MayChangeMembership :
                 (p \in IndexedPaths(sync')) = (p \in IndexedPaths(sync))]_vars

\* The file of the working directory that an index entry stands for.
FileOfEntry(base_path, r) == base_path \o r

(***************************************************************************)
(* C39: whether base_path is the git working directory or a directory      *)
(* below it, the refresh overwrites the git_status of every affected file  *)
(* that git reports as changed, and every status it writes is the status   *)
(* of the file the index entry stands for.                                 *)
(***************************************************************************)
C39_RefreshAddressesAffectedFiles ==
    s_result # None =>
        LET c == s_call[1]
            index == s_result[1]
        IN /\ \A p \in c.affected_paths :
                  c.tree[p] = "modified"
                      => index[diff_paths(p, c.base_path)] = Some({"WT_MODIFIED"})
           /\ \A r \in DOMAIN index :
                  index[r] # None => c.tree[FileOfEntry(c.base_path, r)] = "modified"

\* The same, for the calls whose base_path is the working directory.
RefreshAtWorkdirAddressesFiles ==
    (s_result # None /\ s_call[1].base_path = <<>>) => C39_RefreshAddressesAffectedFiles

\* The results fuzzy_search_with_snapshot can return for the call once the
\* matcher has scored the candidates recorded in h_candidates.
PossibleResults ==
    search_of_scored(s_call[1].files, s_call[1].max_results, h_candidates[1])

\* Two of the scored candidates have the same total and their files the same
\* modification time.
CandidatesTie ==
    \E i, j \in 1..Len(h_candidates[1]) :
        /\ i # j
        /\ h_candidates[1][i].score.total = h_candidates[1][j].score.total
        /\ s_call[1].files[h_candidates[1][i].idx + 1].modified
              = s_call[1].files[h_candidates[1][j].idx + 1].modified

SearchWithoutTiesHasOneResult ==
    (s_result # None /\ ~CandidatesTie) => Cardinality(PossibleResults) = 1
=============================================================================
